---- MODULE Spec2Model ----
(***************************************************************************)
(* State-machine model of the Wraith browser game (ManuelGiehl/wraith).    *)
(*                                                                         *)
(* One Tick is one call of GameUpdater.update from Game.gameLoop; the      *)
(* other actions are the DOM event handlers of EventHandler.               *)
(*                                                                         *)
(* Conventions                                                             *)
(*  - Lengths and velocities are integers in HALF PIXELS (Px(n) = 2n), so  *)
(*    that the golem step of 1.5 px and the gravity of 0.5 px/tick^2 are   *)
(*    exact.  The only inexact arithmetic is applyFriction (x0.8), which   *)
(*    is rounded toward zero to the half pixel.                            *)
(*  - Wall-clock reads (Date.now) are inputs of Tick: whether a spawn      *)
(*    interval or the dying delay has elapsed is chosen by the             *)
(*    environment, within what the 15 ms frame gate of gameLoop allows.    *)
(*  - Fields that only feed the renderer (sprite frames, blink timers,     *)
(*    camera, rain, sounds, damage-feedback timers) are left out.          *)
(*  - Fields whose name starts with "g" followed by a capital letter, and  *)
(*    the variable ghost, are history variables: they record what the      *)
(*    code did and are never read by the modelled code.                    *)
(***************************************************************************)
EXTENDS Integers, Sequences, FiniteSets, TLC

VARIABLES game, screens, room, keys, player, gsys, golems, spells, potions,
          crystal, bsys, ghost

vars ==
  <<game, screens, room, keys, player, gsys, golems, spells, potions,
    crystal, bsys, ghost>>

Px(n) == 2 * n

Max(a, b) == IF a > b THEN a ELSE b

Min(a, b) == IF a < b THEN a ELSE b

Abs(a) == IF a < 0 THEN -a ELSE a

\* The program state as one record, so that the sequential code of a
\* handler is a composition of functions from worlds to worlds.
World ==
  [game |-> game, screens |-> screens, room |-> room, keys |-> keys,
   player |-> player, gsys |-> gsys, golems |-> golems, spells |-> spells,
   potions |-> potions, crystal |-> crystal, bsys |-> bsys, ghost |-> ghost]

----------------------------------------------------------------------------
(* Construction                                                             *)

createPlayerObject ==
  [x |-> Px(100), y |-> Px(250), velocityX |-> 0, velocityY |-> 0,
   isGrounded |-> FALSE, isJumping |-> FALSE, facingRight |-> TRUE,
   health |-> 100, mana |-> 0, manaPotions |-> 0,
   isCasting |-> FALSE, castingFrame |-> 0,
   isCastingUltimate |-> FALSE, ultimateCastingFrame |-> 0,
   isHurt |-> FALSE, hurtTimer |-> 0,
   isDying |-> FALSE, dyingFrame |-> 0, dyingAge |-> 0,
   hasMoved |-> FALSE, sSkillDamage |-> 30,
   ultimateDamage |-> 100, ultimateCastCount |-> 0,
   ultimateReady |-> FALSE,
   currentAnimation |-> "idle", isBlinking |-> FALSE, blinkFrame |-> 0,
   idleBlinkTimer |-> 0,
   gDeathEntries |-> 0, gCastTicks |-> 0]

\* frameCount only paces the mobile overlay and is left out
GameConstructor ==
  [score |-> 0, gameOver |-> FALSE, isPaused |-> FALSE, ultimateCastId |-> 0]

ScreensConstructor ==
  [start |-> TRUE, end |-> FALSE, gameOver |-> FALSE]

\* bossRoomAnimation: phase, duration and blackScreenDuration
\* fadeAlpha is kept in 120ths
BossRoomConstructor ==
  [inBossRoom |-> FALSE, enteringBossRoom |-> FALSE, phase |-> "flying_up",
   duration |-> 0, blackScreenDuration |-> 0, fadeAlpha |-> 0]

\* crystal = null is spawned = FALSE
CrystalConstructor == [spawned |-> FALSE, x |-> 0]

\* createBoss; lastUltimateHit = -1 stands for the missing property, as do
\* dyingFrame = 0, deathAnimationTimer = 0 and deathAnimationFinished = FALSE.
\* gMagicAge and gFireAge count the calls of BossSystem.update since the
\* latest fire attack started and since its fireballs were shot (-1: never,
\* capped at 240); gMeleeHits counts the hits of the current melee attack;
\* gLastFrameAge counts the calls since dyingFrame reached 5 (-1: it has not)
createBoss ==
  [exists |-> TRUE, health |-> 1000, attackCooldown |-> 0,
   magicAttackCooldown |-> 0, isAttacking |-> FALSE,
   isMagicAttacking |-> FALSE, isLightningAttacking |-> FALSE,
   isHurt |-> FALSE, isDead |-> FALSE, idleTime |-> 0, hurtTimer |-> 0,
   meleeAttackTimer |-> 0, magicAttackTimer |-> 0, lightningAttackTimer |-> 0,
   lastUltimateHit |-> -1, dyingFrame |-> 0, deathAnimationTimer |-> 0,
   deathAnimationFinished |-> FALSE, gUltLog |-> <<>>, gDamageLog |-> <<>>,
   gMagicAge |-> -1, gFireAge |-> -1, gMeleeHits |-> 0, gLastFrameAge |-> -1]

\* boss = null
NoBoss == [createBoss EXCEPT !.exists = FALSE]

BossX == Px(100)

BossY == Px(720) \div 2 + Px(20)

BossSystemConstructor ==
  [boss |-> NoBoss, bossSpawned |-> FALSE, bossActive |-> FALSE,
   fireballs |-> <<>>, lightnings |-> <<>>]

\* golemHPMultiplier is kept in quarters (4 = 1.0 ... 8 = 2.0).
\* eliteEver abstracts lastEliteGolemSpawn # 0: while it is 0 the elite
\* interval has certainly elapsed (GolemSystem.reset leaves it alone).
GolemSystemConstructor ==
  [golemHPMultiplier |-> 4, golemSpawnInterval |-> 2000, eliteEver |-> FALSE]

\* nextId numbers the golems ever created; ticks counts the calls of
\* GameUpdater.update and events the environment inputs used so far; the
\* other fields log what the latest call of update did.
GhostInit ==
  [nextId |-> 1, ticks |-> 0, events |-> 0, removed |-> <<>>, hits |-> <<>>,
   rescaled |-> <<>>, meleeHits |-> 0, bossHits |-> 0, shotHits |-> 0,
   finished |-> <<>>, spawned |-> <<>>, shots |-> <<>>, swings |-> <<>>,
   dyingDelay |-> "unread", casts |-> <<>>]

----------------------------------------------------------------------------
(* Sequences (Array.prototype helpers)                                      *)

RECURSIVE FoldSeq(_, _, _, _)
\* s.forEach over indices i..Len(s): acc := f(acc, i), each step evaluated
\* before the next one
FoldSeq(f(_, _), acc, i, n) ==
  IF i > n THEN acc
  ELSE LET next == f(acc, i)
       IN IF next = next THEN FoldSeq(f, next, i + 1, n) ELSE acc

\* s.filter(keep)
Filter(s, keep(_)) == SelectSeq(s, keep)

----------------------------------------------------------------------------
(* Hitboxes                                                                 *)

Box(x, y, w, h) == [x |-> x, y |-> y, width |-> w, height |-> h]

checkHitboxCollision(hitbox1, hitbox2) ==
  /\ hitbox1.x < hitbox2.x + hitbox2.width
  /\ hitbox1.x + hitbox1.width > hitbox2.x
  /\ hitbox1.y < hitbox2.y + hitbox2.height
  /\ hitbox1.y + hitbox1.height > hitbox2.y

\* x + (96 - 30) / 2, y + (96 - 40) / 2, 30 x 40
getWraithHitbox(p) == Box(p.x + Px(33), p.y + Px(28), Px(30), Px(40))

\* Golems and the boss carry neither type nor hitboxWidth: the last branch
\* of getObjectHitbox returns the whole sprite box.
GolemY == Px(670 - 120)

getGolemHitbox(g) == Box(g.x, GolemY, Px(120), Px(120))

\* hitboxSize = min(width, height) * 0.4, centred
getSpellHitbox(s) ==
  LET size == (Min(s.width, s.height) * 4) \div 10
  IN Box(s.x + (s.width - size) \div 2, s.y + (s.height - size) \div 2,
         size, size)

----------------------------------------------------------------------------
(* GolemSystem: creation, HP scaling                                        *)

GolemBaseHP(isElite) == IF isElite THEN 150 ELSE 90

\* Math.floor(hp * golemHPMultiplier), the multiplier q being in quarters
ScaledMaxHP(hp, q) == (hp * q) \div 4

createGolemData(isElite, x, q, id) ==
  [gId |-> id, isElite |-> isElite, x |-> x,
   health |-> ScaledMaxHP(GolemBaseHP(isElite), q),
   maxHealth |-> ScaledMaxHP(GolemBaseHP(isElite), q),
   currentAnimation |-> "idle", frameCount |-> 0,
   isDying |-> FALSE, isHurt |-> FALSE, isAttacking |-> FALSE,
   hurtTimer |-> 0, attackTimer |-> 0, dyingFrame |-> 0, attackCooldown |-> 0,
   facingRight |-> TRUE, hasDealtDamage |-> FALSE,
   lastUltimateHit |-> -1, potionDropped |-> FALSE,
   gSwingHits |-> 0, gUltLog |-> <<>>, gKilledNow |-> FALSE,
   gRewards |-> 0, gDyingTicks |-> 0, gDeathAwards |-> 0,
   gAttackAge |-> -1]

\* createGolem(type): distance 400 (normal), 500 (elite) or
\* 300 + Math.random() * 200 (bonus), to the left or to the right
canSpawnGolems(w) ==
  /\ w.player.hasMoved
  /\ ~w.room.inBossRoom
  /\ ~w.room.enteringBossRoom

\* history: a golem pushed to the live list, and what held at the push
SpawnedEntry(w, isElite) ==
  [gId |-> w.ghost.nextId, isElite |-> isElite,
   hasMoved |-> w.player.hasMoved, inBossRoom |-> w.room.inBossRoom,
   enteringBossRoom |-> w.room.enteringBossRoom]

createGolem(w, isElite, distance, toRight) ==
  [w EXCEPT
    !.golems = Append(@, createGolemData(isElite,
                 w.player.x + (IF toRight THEN distance ELSE -distance),
                 w.gsys.golemHPMultiplier, w.ghost.nextId)),
    !.ghost.nextId = @ + 1,
    !.ghost.spawned = Append(@, SpawnedEntry(w, isElite))]

\* IEEE-754 doubles: Math.floor(newMaxHP * (health / maxHealth)) is one
\* below the exact floor for these (newMaxHP, maxHealth, health); for every
\* other pair of maxima a golem with health > 0 can have (consecutive
\* multipliers, base 90 or 150) the double result is the exact floor.
DoubleFloorDeficit(newMaxHP, health, maxHealth) ==
  IF \/ /\ newMaxHP = 180 /\ maxHealth = 180
        /\ health \in {13, 26, 49, 52, 63, 98, 104, 109, 115, 126}
     \/ /\ newMaxHP = 300 /\ maxHealth = 300
        /\ health \in {55, 79, 97, 110, 123, 158, 171, 194, 207, 220, 233, 246}
  THEN 1 ELSE 0

ScaleHealth(newMaxHP, health, maxHealth) ==
  (newMaxHP * health) \div maxHealth
    - DoubleFloorDeficit(newMaxHP, health, maxHealth)

increaseGolemHP(w) ==
  LET q == Min(w.gsys.golemHPMultiplier + 1, 8)
      Scale(g) ==
        IF g.health > 0
        THEN LET newMaxHP == ScaledMaxHP(GolemBaseHP(g.isElite), q)
             IN [g EXCEPT !.health = ScaleHealth(newMaxHP, g.health, g.maxHealth),
                          !.maxHealth = newMaxHP]
        ELSE g
      Entry(g) == [gId |-> g.gId, isElite |-> g.isElite,
                   oldHealth |-> g.health, oldMax |-> g.maxHealth,
                   health |-> Scale(g).health, maxHealth |-> Scale(g).maxHealth]
  IN [w EXCEPT
       !.gsys.golemHPMultiplier = q,
       !.golems = [i \in DOMAIN w.golems |-> Scale(w.golems[i])],
       !.ghost.rescaled = [i \in DOMAIN w.golems |-> Entry(w.golems[i])]]

----------------------------------------------------------------------------
(* SpellCaster                                                              *)

createNormalSpellData(p) ==
  [x |-> p.x + (IF p.facingRight THEN Px(96 - 20) ELSE Px(-70)),
   y |-> p.y + Px(96) \div 2 - Px(50),
   width |-> Px(90), height |-> Px(90),
   velocityX |-> (IF p.facingRight THEN 1 ELSE -1) * Px(8),
   lifetime |-> 60, damage |-> p.sSkillDamage, isExploding |-> FALSE,
   isUltimate |-> FALSE, isLightning |-> FALSE, isGolemLightning |-> FALSE,
   isBossLightning |-> FALSE, lightningPhase |-> "none", strikeDelay |-> 0,
   hasHit |-> FALSE, gCastId |-> 0, gLifetimeBefore |-> 60,
   gHits |-> 0, gSplashes |-> 0]

\* a spell as it was cast: after how many calls of updatePlayer since the
\* cast began, and the player's sSkillDamage then
CastEntry(p, spell) ==
  [age |-> p.gCastTicks, lifetime |-> spell.lifetime, damage |-> spell.damage,
   isUltimate |-> spell.isUltimate, sSkillDamage |-> p.sSkillDamage]

\* SpellManager.castSpell
castSpell(w) ==
  LET spell == createNormalSpellData(w.player)
  IN [w EXCEPT !.spells = Append(@, spell),
               !.ghost.casts = Append(@, CastEntry(w.player, spell))]

createGolemLightning(g, damage, castId) ==
  [x |-> g.x + Px(120) \div 2 - Px(75), y |-> GolemY - Px(20),
   width |-> Px(150), height |-> Px(150), velocityX |-> 0,
   lifetime |-> 96, damage |-> damage, isExploding |-> FALSE,
   isUltimate |-> TRUE, isLightning |-> TRUE, isGolemLightning |-> TRUE,
   isBossLightning |-> FALSE, lightningPhase |-> "hovering",
   strikeDelay |-> 20, hasHit |-> FALSE, gCastId |-> castId,
   gLifetimeBefore |-> 96, gHits |-> 0, gSplashes |-> 0]

damageGolemWithUltimate(g, damage, castId) ==
  LET h == g.health - damage
  IN [g EXCEPT !.health = h,
               !.lastUltimateHit = castId,
               !.isHurt = IF h > 0 THEN TRUE ELSE @,
               !.hurtTimer = IF h > 0 THEN 20 ELSE @,
               !.gUltLog = Append(@, castId),
               !.gKilledNow = @ \/ (g.health > 0 /\ h <= 0)]

\* the test of hitGolemsWithUltimate: in range and not yet stamped
UltimateReachesGolem(g, wraithX, castId) ==
  /\ Abs(g.x - wraithX) <= Px(550)
  /\ g.lastUltimateHit # castId

hitGolemsWithUltimate(w) ==
  IF w.room.inBossRoom THEN w
  ELSE LET id == w.game.ultimateCastId
           dmg == w.player.ultimateDamage
           Hit(g) == UltimateReachesGolem(g, w.player.x, id)
           Step(acc, i) ==
             IF Hit(w.golems[i])
             THEN Append(acc, createGolemLightning(w.golems[i], dmg, id))
             ELSE acc
       IN [w EXCEPT
            !.golems = [i \in DOMAIN w.golems |->
                          IF Hit(w.golems[i])
                          THEN damageGolemWithUltimate(w.golems[i], dmg, id)
                          ELSE w.golems[i]],
            !.spells = @ \o FoldSeq(Step, <<>>, 1, Len(w.golems))]

createBossLightning(damage, castId) ==
  [x |-> Px(200), y |-> BossY + Px(50),
   width |-> Px(150), height |-> Px(100), velocityX |-> 0,
   lifetime |-> 96, damage |-> damage, isExploding |-> FALSE,
   isUltimate |-> TRUE, isLightning |-> TRUE, isGolemLightning |-> FALSE,
   isBossLightning |-> TRUE, lightningPhase |-> "hovering",
   strikeDelay |-> 20, hasHit |-> FALSE, gCastId |-> castId,
   gLifetimeBefore |-> 96, gHits |-> 0, gSplashes |-> 0]

\* history: one damage application to the boss
DamageEntry(kind, b, health, flash) ==
  [kind |-> kind, oldHealth |-> b.health, health |-> health, flash |-> flash,
   wasDead |-> b.isDead]

damageBossWithUltimate(b, damage, castId) ==
  LET h == b.health - damage
  IN [b EXCEPT !.health = h,
               !.lastUltimateHit = castId,
               !.isHurt = IF h > 0 THEN TRUE ELSE @,
               !.hurtTimer = IF h > 0 THEN 20 ELSE @,
               !.gUltLog = Append(@, castId),
               !.gDamageLog = Append(@, DamageEntry("ultimate", b, h, h > 0))]

\* the tests of hitBossWithUltimate
UltimateReachesBoss(w) ==
  /\ w.room.inBossRoom
  /\ w.bsys.boss.exists
  /\ w.bsys.boss.lastUltimateHit # w.game.ultimateCastId

hitBossWithUltimate(w) ==
  IF UltimateReachesBoss(w)
  THEN [w EXCEPT
         !.bsys.boss = damageBossWithUltimate(@, w.player.ultimateDamage,
                                              w.game.ultimateCastId),
         !.spells = Append(@, createBossLightning(w.player.ultimateDamage,
                                                  w.game.ultimateCastId))]
  ELSE w

\* castUltimateSpell: golems, then the boss, then the score
castUltimateSpell(w) ==
  LET w1 == hitBossWithUltimate(hitGolemsWithUltimate(w))
  IN [w1 EXCEPT !.game.score = @ + 2500]

----------------------------------------------------------------------------
(* WraithAnimation: casting                                                 *)

\* finishCasting that leaves the casting animation on
finishCastingKeepingAnimation(w) ==
  castSpell([w EXCEPT !.player.isCasting = FALSE, !.player.castingFrame = 0])

finishCasting(w) ==
  castSpell([w EXCEPT !.player.isCasting = FALSE,
                      !.player.currentAnimation = "idle",
                      !.player.castingFrame = 0])

updateSpawnInterval(interval) ==
  IF interval = 2000 THEN 1750 ELSE 1500

\* spawnBonusGolems(3): bonus[i] is the i-th draw of Math.random
spawnBonusGolems(w, bonus) ==
  LET Step(acc, i) == createGolem(acc, FALSE, bonus[i].distance, bonus[i].toRight)
  IN FoldSeq(Step, w, 1, 3)

\* a variant of UltimateDamageIncreaseDue that counts the cast too late
UltimateDamageIncreaseBeforeCount(count) == (count - 1) % 5 = 0

\* the test of checkUltimateDamageIncrease
UltimateDamageIncreaseDue(count) == count % 5 = 0

\* what a finished ultimate cast leaves in the history
FinishedEntry(p) ==
  [n |-> p.ultimateCastCount, mana |-> p.mana,
   ultimateReady |-> p.ultimateReady, sSkillDamage |-> p.sSkillDamage,
   ultimateDamage |-> p.ultimateDamage]

finishUltimateCasting(w, bonus) ==
  LET count == w.player.ultimateCastCount + 1
      w1 == [w EXCEPT
               !.player.mana = 0,
               !.player.ultimateReady = FALSE,
               !.player.ultimateCastCount = count,
               !.player.sSkillDamage = @ + 15,
               !.player.ultimateDamage =
                  IF UltimateDamageIncreaseDue(count) THEN @ + 100 ELSE @,
               !.gsys.golemSpawnInterval = updateSpawnInterval(@)]
      w2 == increaseGolemHP(spawnBonusGolems(w1, bonus))
      w3 == castUltimateSpell([w2 EXCEPT !.game.ultimateCastId = @ + 1])
      w4 == [w3 EXCEPT !.player.isCastingUltimate = FALSE,
                       !.player.currentAnimation = "idle",
                       !.player.ultimateCastingFrame = 0]
  IN [w4 EXCEPT !.ghost.finished = Append(@, FinishedEntry(w4.player))]

updateCastingAnimation(w) ==
  LET f == w.player.castingFrame + 1
      w1 == [w EXCEPT !.player.castingFrame = f]
  IN IF f >= 18 THEN finishCasting(w1) ELSE w1

updateUltimateCastingAnimation(w, bonus) ==
  LET f == w.player.ultimateCastingFrame + 1
      w1 == [w EXCEPT !.player.ultimateCastingFrame = f]
  IN IF f >= 6 THEN finishUltimateCasting(w1, bonus) ELSE w1

\* updateNormalAnimations: of the frames only blinkFrame is kept
updateNormalAnimations(p) ==
  IF p.currentAnimation = "idleBlink"
  THEN [p EXCEPT !.blinkFrame = Min(11, @ + 1)]
  ELSE p

updatePlayerAnimation(w, bonus) ==
  IF w.player.isDying THEN w
  ELSE IF w.player.isCasting THEN updateCastingAnimation(w)
  ELSE IF w.player.isCastingUltimate THEN updateUltimateCastingAnimation(w, bonus)
  ELSE [w EXCEPT !.player = updateNormalAnimations(@)]

----------------------------------------------------------------------------
(* WraithPhysics                                                            *)

GroundLevel(w) == IF w.room.inBossRoom THEN Px(600) ELSE Px(670)

\* a variant of DeathDue that forgets the death has begun
DeathDueAgain(p) == p.health <= 0

\* the test of handleDeathLogic that starts the death
DeathDue(p) == p.health <= 0 /\ ~p.isDying

initiateDeath(w) ==
  [w EXCEPT !.player.isDying = TRUE,
            !.player.dyingFrame = 0,
            !.player.currentAnimation = "dying",
            !.player.dyingAge = 0,
            !.player.y = GroundLevel(w) - Px(96) + Px(30),
            !.player.velocityY = 0,
            !.player.gDeathEntries = @ + 1]

\* 1500 ms at no less than 15 ms a frame: the delay has elapsed after at
\* most 100 ticks; before that the environment decides (elapsed).
DyingDelayOver(age, elapsed) == elapsed \/ age * 15 >= 1500

\* updateDyingAnimation with the game over from its first frame on
updateDyingAnimationAtOnce(w, elapsed) ==
  LET f == IF w.player.dyingFrame < 14 THEN w.player.dyingFrame + 1
           ELSE w.player.dyingFrame
      age == Min(w.player.dyingAge + 1, 100)
  IN [w EXCEPT !.player.dyingFrame = f,
               !.player.dyingAge = age,
               !.ghost.dyingDelay =
                  IF f < 14 THEN @
                  ELSE IF DyingDelayOver(age, elapsed) THEN "over"
                  ELSE "short",
               !.game.gameOver = TRUE,
               !.screens.gameOver = TRUE]

\* dyingAge counts the ticks since initiateDeath (Date.now() - dyingStartTime);
\* ghost.dyingDelay is what checkDyingDelay read from the clock
updateDyingAnimation(w, elapsed) ==
  LET f == IF w.player.dyingFrame < 14 THEN w.player.dyingFrame + 1
           ELSE w.player.dyingFrame
      age == Min(w.player.dyingAge + 1, 100)
      over == f >= 14 /\ DyingDelayOver(age, elapsed)
  IN [w EXCEPT !.player.dyingFrame = f,
               !.player.dyingAge = age,
               !.ghost.dyingDelay =
                  IF f < 14 THEN @
                  ELSE IF DyingDelayOver(age, elapsed) THEN "over"
                  ELSE "short",
               !.game.gameOver = IF over THEN TRUE ELSE @,
               !.screens.gameOver = IF over THEN TRUE ELSE @]

handleDeathLogic(w, elapsed) ==
  LET w1 == IF DeathDue(w.player) THEN initiateDeath(w) ELSE w
  IN IF w1.player.isDying THEN updateDyingAnimation(w1, elapsed) ELSE w1

handleHurtAnimation(p) ==
  IF p.isHurt
  THEN IF p.hurtTimer <= 0
       THEN [p EXCEPT !.isHurt = FALSE, !.currentAnimation = "idle"]
       ELSE [p EXCEPT !.currentAnimation = "hurt"]
  ELSE p

updatePhysics(w) ==
  IF ~w.room.enteringBossRoom
  THEN [w EXCEPT !.player.velocityY = @ + 1]
  ELSE w

updatePosition(p) ==
  [p EXCEPT !.x = @ + p.velocityX, !.y = @ + p.velocityY]

handleBossRoomBounds(w) ==
  IF w.room.inBossRoom
  THEN LET x == Max(Px(20), Min(w.player.x, Px(1280) - Px(96) - Px(20)))
           low == w.player.y + Px(96) > Px(600)
       IN [w EXCEPT !.player.x = x,
                    !.player.y = IF low THEN Px(600) - Px(96) ELSE @,
                    !.player.velocityY = IF low THEN 0 ELSE @,
                    !.player.isGrounded = IF low THEN TRUE ELSE @]
  ELSE w

handleGroundCollision(w) ==
  IF ~w.room.enteringBossRoom
  THEN IF w.player.y + Px(96) >= GroundLevel(w)
       THEN [w EXCEPT !.player.y = GroundLevel(w) - Px(96),
                      !.player.velocityY = 0,
                      !.player.isGrounded = TRUE,
                      !.player.isJumping = FALSE]
       ELSE [w EXCEPT !.player.isGrounded = FALSE]
  ELSE w

moveLeft(p) ==
  [p EXCEPT !.velocityX = -Px(4), !.facingRight = FALSE, !.hasMoved = TRUE,
            !.currentAnimation = IF p.isGrounded THEN "walking" ELSE @]

moveRight(p) ==
  [p EXCEPT !.velocityX = Px(4), !.facingRight = TRUE, !.hasMoved = TRUE,
            !.currentAnimation = IF p.isGrounded THEN "walking" ELSE @]

\* velocityX *= 0.8, rounded toward zero to the half pixel (so that the
\* cut-off below 0.1 px is reached after six ticks instead of seventeen)
applyFriction(p) ==
  [p EXCEPT !.velocityX = IF @ >= 0 THEN (@ * 8) \div 10
                          ELSE -((-@ * 8) \div 10),
            !.currentAnimation =
               IF p.isGrounded /\ ~p.isJumping /\ ~p.isBlinking
               THEN "idle" ELSE @]

processMovementInput(w) ==
  IF w.keys.ArrowLeft THEN [w EXCEPT !.player = moveLeft(@)]
  ELSE IF w.keys.ArrowRight THEN [w EXCEPT !.player = moveRight(@)]
  ELSE [w EXCEPT !.player = applyFriction(@)]

stopMovementDuringSpecialStates(w) ==
  IF ~w.room.enteringBossRoom THEN [w EXCEPT !.player.velocityX = 0] ELSE w

\* the test of handleInput
MayMove(w) ==
  /\ ~w.player.isCasting
  /\ ~w.player.isCastingUltimate
  /\ ~w.player.isHurt
  /\ ~w.player.isDying
  /\ ~w.room.enteringBossRoom

handleInput(w) ==
  IF MayMove(w) THEN processMovementInput(w)
  ELSE stopMovementDuringSpecialStates(w)

resetIdleBlink(p) ==
  [p EXCEPT !.idleBlinkTimer = 0, !.isBlinking = FALSE, !.blinkFrame = 0]

\* idleBlinkThreshold is 180
updateIdleBlinkTimer(p) ==
  LET timer == IF ~p.isBlinking THEN p.idleBlinkTimer + 1
               ELSE p.idleBlinkTimer
      begins == timer >= 180 /\ ~p.isBlinking
      p1 == IF begins
            THEN [p EXCEPT !.idleBlinkTimer = timer, !.isBlinking = TRUE,
                           !.blinkFrame = 0, !.currentAnimation = "idleBlink"]
            ELSE [p EXCEPT !.idleBlinkTimer = timer]
  IN IF p1.isBlinking /\ p1.blinkFrame >= 11
     THEN [p1 EXCEPT !.idleBlinkTimer = 0]
     ELSE p1

handleIdleBlink(p) ==
  IF ~p.isHurt /\ ~p.isDying
  THEN IF p.velocityX = 0 /\ p.isGrounded /\ ~p.isJumping
       THEN updateIdleBlinkTimer(p)
       ELSE resetIdleBlink(p)
  ELSE p

updateUltimateReady(w) ==
  [w EXCEPT !.player.ultimateReady = w.player.mana >= 100]

\* WraithPhysics.updatePlayer
updatePlayerPhysics(w, elapsed) ==
  LET w1 == handleDeathLogic(
              [w EXCEPT !.player.hurtTimer = Max(0, @ - 1)], elapsed)
  IN IF w1.player.isDying THEN w1
     ELSE LET w2 == [w1 EXCEPT !.player = handleHurtAnimation(@)]
              w3 == updatePhysics(w2)
              w4 == [w3 EXCEPT !.player = updatePosition(@)]
              w5 == handleBossRoomBounds(w4)
              w6 == handleGroundCollision(w5)
              w7 == handleInput(w6)
          IN updateUltimateReady([w7 EXCEPT !.player = handleIdleBlink(@)])

\* WraithSystem.updatePlayer; gCastTicks counts its calls during a cast
updatePlayer(w, elapsed, bonus) ==
  LET w1 == [w EXCEPT !.player.gCastTicks =
                         IF w.player.isCasting THEN Min(20, @ + 1) ELSE @]
  IN updatePlayerAnimation(updatePlayerPhysics(w1, elapsed), bonus)

----------------------------------------------------------------------------
(* WraithInput and EventHandler.handleMouseDown                             *)

handleLeftArrow(p) ==
  IF ~p.isCasting
  THEN [p EXCEPT !.velocityX = -Px(4), !.facingRight = FALSE,
                 !.currentAnimation = "walking"]
  ELSE p

handleRightArrow(p) ==
  IF ~p.isCasting
  THEN [p EXCEPT !.velocityX = Px(4), !.facingRight = TRUE,
                 !.currentAnimation = "walking"]
  ELSE p

startCasting(w) ==
  IF Len(w.spells) >= 15 THEN w
  ELSE [w EXCEPT !.player.isCasting = TRUE,
                 !.player.currentAnimation = "casting",
                 !.player.castingFrame = 0,
                 !.player.velocityX = 0,
                 !.player.gCastTicks = 0]

\* the test of handleAutoAttack
MayAutoAttack(p) ==
  ~p.isCasting /\ ~p.isCastingUltimate /\ ~p.isHurt /\ ~p.isDying

handleAutoAttack(w) ==
  IF MayAutoAttack(w.player) THEN startCasting(w) ELSE w

\* the test of handleMouseDown (the left button being the one pressed)
MayMouseCast(p) == ~p.isCasting /\ ~p.isCastingUltimate

handleMouseDown(w) ==
  IF MayMouseCast(w.player) THEN startCasting(w) ELSE w

handleJump(p) ==
  IF ~p.isCasting /\ ~p.isCastingUltimate /\ ~p.isHurt /\ ~p.isDying
       /\ p.isGrounded
  THEN [p EXCEPT !.velocityY = -Px(12), !.isGrounded = FALSE,
                 !.isJumping = TRUE, !.currentAnimation = "jumping",
                 !.hasMoved = TRUE]
  ELSE p

handleManaPotion(p) ==
  IF p.manaPotions > 0
  THEN [p EXCEPT !.mana = 100, !.manaPotions = @ - 1,
                 !.ultimateReady = TRUE]
  ELSE p

startUltimateCasting(p) ==
  [p EXCEPT !.isCastingUltimate = TRUE, !.currentAnimation = "casting",
            !.ultimateCastingFrame = 0, !.velocityX = 0]

\* the test of handleUltimate
MayUltimate(p) == ~p.isCasting /\ ~p.isCastingUltimate /\ p.mana >= 100

handleUltimate(p) ==
  IF MayUltimate(p) THEN startUltimateCasting(p) ELSE p

----------------------------------------------------------------------------
(* GolemSystem.updateGolems                                                 *)

updateGolemTimers(g) ==
  [g EXCEPT !.hurtTimer = Max(0, @ - 1),
            !.attackTimer = Max(0, @ - 1),
            !.attackCooldown = Max(0, @ - 1),
            !.gAttackAge = IF @ < 0 THEN @ ELSE Min(72, @ + 1)]

\* the test of handleGolemDeath
GolemDeathDue(g) == g.health <= 0 /\ ~g.isDying

handleGolemDeath(g) ==
  IF GolemDeathDue(g)
  THEN [g EXCEPT !.isDying = TRUE, !.dyingFrame = 0,
                 !.currentAnimation = "dying", !.gDeathAwards = @ + 1]
  ELSE g

\* frameCount is kept in tenths: += 0.5, >= 1; gDyingTicks counts the calls
updateDyingGolem(g) ==
  IF g.frameCount + 5 >= 10
  THEN IF g.dyingFrame + 1 >= 15
       THEN [g EXCEPT !.frameCount = 0, !.dyingFrame = 14,
                      !.potionDropped = @ \/ g.isElite, !.health = -1,
                      !.gDyingTicks = @ + 1]
       ELSE [g EXCEPT !.frameCount = 0, !.dyingFrame = @ + 1,
                      !.gDyingTicks = @ + 1]
  ELSE [g EXCEPT !.frameCount = @ + 5, !.gDyingTicks = @ + 1]

\* handleEliteGolemDeath is reached when updateDyingGolem ends the animation
DropsPotion(before, after) ==
  /\ after.health = -1
  /\ before.isElite
  /\ ~before.potionDropped
  /\ after.potionDropped

handleHurtGolem(g) ==
  IF g.hurtTimer <= 0
  THEN [g EXCEPT !.isHurt = FALSE, !.currentAnimation = "idle"]
  ELSE [g EXCEPT !.currentAnimation = "hurt"]

\* the test of handleGolemAttack
AttackDue(g, isInRange) ==
  isInRange /\ g.attackCooldown <= 0 /\ ~g.isAttacking

\* handleGolemAttack without the test of the cooldown
handleGolemAttackAtOnce(g, isInRange) ==
  IF isInRange /\ ~g.isAttacking
  THEN [g EXCEPT !.isAttacking = TRUE, !.attackTimer = 20,
                 !.attackCooldown = 72, !.hasDealtDamage = FALSE,
                 !.gSwingHits = 0, !.gAttackAge = 0]
  ELSE g

\* gAttackAge counts the calls of updateGolems since the attack began, the
\* one that began it not included (-1 before the first attack, 72 for 72 or
\* more)
handleGolemAttack(g, isInRange) ==
  IF AttackDue(g, isInRange)
  THEN [g EXCEPT !.isAttacking = TRUE, !.attackTimer = 20,
                 !.attackCooldown = 72, !.hasDealtDamage = FALSE,
                 !.gSwingHits = 0, !.gAttackAge = 0]
  ELSE g

\* the step is 1.5 px
handleGolemMovement(g, px, distanceToPlayer, isInRange) ==
  IF g.isAttacking THEN [g EXCEPT !.currentAnimation = "attacking"]
  ELSE IF isInRange THEN [g EXCEPT !.currentAnimation = "idle"]
  ELSE IF distanceToPlayer > Px(60)
       THEN [g EXCEPT !.x = @ + (IF px > g.x THEN 3 ELSE -3),
                      !.currentAnimation = "walking"]
       ELSE [g EXCEPT !.currentAnimation = "idle"]

finishGolemAttack(g) ==
  IF g.isAttacking /\ g.attackTimer <= 0
  THEN [g EXCEPT !.isAttacking = FALSE, !.currentAnimation = "idle",
                 !.frameCount = 0]
  ELSE g

handleActiveGolem(g, px) ==
  LET distanceToPlayer == Abs(px - g.x)
      isInRange == distanceToPlayer < Px(60)
      g1 == handleGolemAttack([g EXCEPT !.facingRight = px > g.x], isInRange)
      g2 == handleGolemMovement(g1, px, distanceToPlayer, isInRange)
  IN finishGolemAttack(g2)

updateGolemBehavior(g, px) ==
  IF g.isHurt THEN handleHurtGolem(g) ELSE handleActiveGolem(g, px)

\* frameCount in tenths: speed 0.6 walking, 0.9 attacking, 0.8 otherwise.
\* updateGolemPhysics leaves a golem at y = 670 - 120.
updateGolemAnimation(g) ==
  LET speed == IF g.currentAnimation = "walking" THEN 6
               ELSE IF g.isAttacking THEN 9 ELSE 8
  IN [g EXCEPT !.frameCount = IF @ + speed >= 10 THEN 0 ELSE @ + speed]

\* the body of the forEach of updateGolems, for one golem; the score += 100
\* of handleGolemDeath is added by updateGolems and counted in gDeathAwards
updateGolem(g, px) ==
  LET g1 == handleGolemDeath(updateGolemTimers(g))
  IN IF g1.isDying THEN updateDyingGolem(g1)
     ELSE updateGolemAnimation(updateGolemBehavior(g1, px))

RemovedEntry(g, by) ==
  [gId |-> g.gId, by |-> by, isDying |-> g.isDying,
   dyingFrame |-> g.dyingFrame, killedNow |-> g.gKilledNow,
   isElite |-> g.isElite, potionDropped |-> g.potionDropped,
   dyingTicks |-> g.gDyingTicks, x |-> g.x,
   deathAwards |-> g.gDeathAwards]

\* this.golems.filter(golem => golem.health !== -1)
Sentinel(g) == g.health = -1

NotSentinel(g) == ~Sentinel(g)

RemovedLog(gs, by) ==
  LET Step(acc, i) ==
        IF Sentinel(gs[i]) THEN Append(acc, RemovedEntry(gs[i], by)) ELSE acc
  IN FoldSeq(Step, <<>>, 1, Len(gs))

\* gPickups counts the calls of collectPotion for the potion
spawnManaPotion(x) == [x |-> x, collected |-> FALSE, gPickups |-> 0]

updateGolems(w) ==
  LET px == w.player.x
      new == [i \in DOMAIN w.golems |-> updateGolem(w.golems[i], px)]
      deaths == Cardinality({i \in DOMAIN w.golems : GolemDeathDue(w.golems[i])})
      Drop(acc, i) ==
        IF DropsPotion(w.golems[i], new[i])
        THEN Append(acc, spawnManaPotion(new[i].x + Px(120) \div 2))
        ELSE acc
  IN [w EXCEPT !.golems = Filter(new, NotSentinel),
               !.game.score = @ + 100 * deaths,
               !.potions = FoldSeq(Drop, @, 1, Len(new)),
               !.ghost.removed = @ \o RemovedLog(new, "updateGolems")]

----------------------------------------------------------------------------
(* SpellUpdater                                                             *)

updateLightningSpell(s) ==
  LET s1 == [s EXCEPT !.lifetime = @ - 1, !.strikeDelay = @ - 1]
  IN IF s1.lightningPhase = "hovering" /\ s1.strikeDelay <= 0
     THEN [s1 EXCEPT !.lightningPhase = "striking", !.lifetime = 96]
     ELSE s1

updateNormalSpell(s) ==
  [s EXCEPT !.x = @ + s.velocityX, !.lifetime = @ - 1]

updateSpell(s) ==
  IF s.isLightning THEN updateLightningSpell(s) ELSE updateNormalSpell(s)

SpellAlive(s) == s.lifetime > 0

updateSpells(w) ==
  [w EXCEPT !.spells =
     Filter([i \in DOMAIN w.spells |-> updateSpell(w.spells[i])], SpellAlive)]

----------------------------------------------------------------------------
(* CollisionSystem: spells against golems                                   *)

\* a variant of KillRewardDue that rewards the hit of a dead golem
KillRewardOnDeadHit(oldHealth, health) == health <= 0

\* the test of damageGolem that grants the kill reward
KillRewardDue(oldHealth, health) == health <= 0 /\ oldHealth > 0

HitEntry(kind, s, g, g2, w, w2) ==
  [kind |-> kind, gId |-> g.gId, damage |-> s.damage,
   isUltimate |-> s.isUltimate,
   oldHealth |-> g.health, health |-> g2.health,
   isHurt |-> g2.isHurt, hurtTimer |-> g2.hurtTimer,
   oldScore |-> w.game.score, score |-> w2.game.score,
   oldMana |-> w.player.mana, mana |-> w2.player.mana]

\* damageGolem(spell, golem), the golem being w.golems[j]
damageGolem(w, s, j) ==
  LET g == w.golems[j]
      h == g.health - s.damage
      reward == KillRewardDue(g.health, h)
      g2 == [g EXCEPT !.health = h,
                      !.isHurt = IF h > 0 THEN TRUE ELSE @,
                      !.hurtTimer = IF h > 0 THEN 15 ELSE @,
                      !.gKilledNow = @ \/ (g.health > 0 /\ h <= 0),
                      !.gRewards = IF reward THEN @ + 1 ELSE @,
                      !.gUltLog = IF s.isUltimate THEN Append(@, s.gCastId)
                                  ELSE @]
      w2 == [w EXCEPT !.golems[j] = g2,
                      !.game.score = IF reward THEN @ + 10 ELSE @,
                      !.player.mana = IF reward THEN Min(100, @ + 5) ELSE @]
  IN [w2 EXCEPT !.ghost.hits = Append(@, HitEntry("direct", s, g, g2, w, w2))]

\* applySplashDamageToGolem(golem, splashDamage), the golem being w.golems[k]
applySplashDamageToGolem(w, s, k, splashDamage) ==
  LET g == w.golems[k]
      h == g.health - splashDamage
      reward == h <= 0 /\ g.health > 0
      g2 == [g EXCEPT !.health = h,
                      !.isHurt = IF h > 0 THEN TRUE ELSE @,
                      !.hurtTimer = IF h > 0 THEN 15 ELSE @,
                      !.gKilledNow = @ \/ (g.health > 0 /\ h <= 0)]
      w2 == [w EXCEPT !.golems[k] = g2,
                      !.player.mana = IF reward THEN Min(100, @ + 3) ELSE @]
  IN [w2 EXCEPT !.ghost.hits =
        Append(@, HitEntry("splash", [s EXCEPT !.damage = splashDamage],
                           g, g2, w, w2))]

\* calculateDistance(spell, golem) <= 80, on the top-left corners
InSplashRadius(s, g) ==
  (s.x - g.x) * (s.x - g.x) + (s.y - GolemY) * (s.y - GolemY)
    <= Px(80) * Px(80)

\* applySplashDamage without the test golem === hitGolem
applySplashDamageToAll(w, s, j) ==
  LET splashDamage == s.damage \div 2
      Step(acc, k) ==
        IF InSplashRadius(s, acc.golems[k])
        THEN applySplashDamageToGolem(acc, s, k, splashDamage)
        ELSE acc
  IN FoldSeq(Step, w, 1, Len(w.golems))

applySplashDamage(w, s, j) ==
  LET splashDamage == s.damage \div 2
      Step(acc, k) ==
        IF k # j /\ InSplashRadius(s, acc.golems[k])
        THEN applySplashDamageToGolem(acc, s, k, splashDamage)
        ELSE acc
  IN FoldSeq(Step, w, 1, Len(w.golems))

setSpellExploding(s) ==
  [s EXCEPT !.isExploding = TRUE, !.lifetime = 30, !.velocityX = 0]

\* spells.splice(spellIndex, 1)
Splice(q, i) ==
  IF i <= Len(q) THEN SubSeq(q, 1, i - 1) \o SubSeq(q, i + 1, Len(q)) ELSE q

\* a variant of IsDamagingSpell that lets the ultimate's lightning damage
DamagesAlsoAsLightning(s) == ~s.isLightning \/ s.isUltimate

\* the test of handleSpellGolemHit and handleSpellBossHit: the ultimate's
\* lightning records deal no damage
IsDamagingSpell(s) == ~s.isLightning \/ ~s.isUltimate

\* SpellCollides without the test of hasHit
SpellCollidesAgain(s, box) ==
  checkHitboxCollision(getSpellHitbox(s), box)

\* the test of the two collision loops
SpellCollides(s, box) ==
  /\ checkHitboxCollision(getSpellHitbox(s), box)
  /\ (~s.hasHit \/ s.isUltimate)

\* gHits counts the calls of damageGolem and takeDamage for the spell,
\* gSplashes those of applySplashDamage
\* handleSpellExplosion: acc.s is the spell object of the forEach callback,
\* acc.live tells whether it is still the element i of the array
handleSpellExplosion(acc, i) ==
  IF ~acc.s.isUltimate
  THEN [acc EXCEPT !.s = setSpellExploding(@)]
  ELSE [acc EXCEPT !.w.spells = Splice(@, i), !.live = FALSE]

handleSpellGolemHit(acc, i, j) ==
  IF IsDamagingSpell(acc.s)
  THEN LET a1 == [acc EXCEPT !.w = damageGolem(@, acc.s, j),
                             !.s.hasHit = TRUE, !.s.gHits = @ + 1]
           a2 == handleSpellExplosion(a1, i)
       IN IF ~a2.s.isUltimate
          THEN [a2 EXCEPT !.w = applySplashDamage(@, a2.s, j),
                          !.s.gSplashes = @ + 1]
          ELSE a2
  ELSE IF acc.s.isBossLightning
       THEN [acc EXCEPT !.s.hasHit = TRUE]
       ELSE acc

\* the callback of spells.forEach in checkSpellGolemCollisions
SpellAgainstGolems(w, i) ==
  LET Step(acc, j) ==
        IF SpellCollides(acc.s, getGolemHitbox(acc.w.golems[j]))
        THEN handleSpellGolemHit(acc, i, j)
        ELSE acc
      res == FoldSeq(Step, [w |-> w, s |-> w.spells[i], live |-> TRUE],
                     1, Len(w.golems))
  IN IF res.live THEN [res.w EXCEPT !.spells[i] = res.s] ELSE res.w

RECURSIVE SpellGolemLoop(_, _, _)
\* Array.prototype.forEach visits the indices below the initial length that
\* still exist
SpellGolemLoop(w, i, n) ==
  IF i > n \/ i > Len(w.spells) THEN w
  ELSE SpellGolemLoop(SpellAgainstGolems(w, i), i + 1, n)

checkSpellGolemCollisions(w) ==
  IF w.room.inBossRoom \/ w.room.enteringBossRoom THEN w
  ELSE SpellGolemLoop(w, 1, Len(w.spells))

----------------------------------------------------------------------------
(* CollisionSystem: golems against the player                               *)

damagePlayer(p, damage) ==
  [p EXCEPT !.isHurt = TRUE, !.hurtTimer = 30, !.health = @ - damage]

\* isGolemAttacking of checkGolemPlayerCollisions
IsGolemAttacking(g) ==
  g.isAttacking /\ g.attackTimer > 0 /\ g.attackTimer <= 5

GolemTouchesPlayer(g, p) ==
  checkHitboxCollision(getWraithHitbox(p), getGolemHitbox(g))

\* the test under which a golem's swing damages the player
GolemHitDue(g, p) ==
  /\ GolemTouchesPlayer(g, p)
  /\ IsGolemAttacking(g)
  /\ ~g.hasDealtDamage
  /\ p.isGrounded

\* a variant of LatchCleared that looks at the overlap only
LatchClearedOnSeparation(g, p) == ~GolemTouchesPlayer(g, p)

\* the test under which the latch hasDealtDamage is cleared
LatchCleared(g, p) == ~GolemTouchesPlayer(g, p) \/ ~IsGolemAttacking(g)

golemPlayerCollision(w, i) ==
  LET g == w.golems[i]
      p == w.player
      hit == GolemHitDue(g, p)
      g1 == IF hit THEN [g EXCEPT !.hasDealtDamage = TRUE, !.gSwingHits = @ + 1]
            ELSE g
      g2 == IF LatchCleared(g1, p) THEN [g1 EXCEPT !.hasDealtDamage = FALSE]
            ELSE g1
  IN [w EXCEPT !.golems[i] = g2,
               !.player = IF hit THEN damagePlayer(@, 20) ELSE @,
               !.ghost.meleeHits = IF hit THEN @ + 1 ELSE @]

checkGolemPlayerCollisions(w) ==
  IF w.room.inBossRoom \/ w.room.enteringBossRoom THEN w
  ELSE FoldSeq(golemPlayerCollision, w, 1, Len(w.golems))

----------------------------------------------------------------------------
(* BossSystem, BossAnimation, BossState, BossAI, BossAttacks                *)

spawnBoss(w) ==
  IF w.bsys.bossSpawned \/ ~w.room.inBossRoom THEN w
  ELSE [w EXCEPT !.bsys.boss = createBoss,
                 !.bsys.bossSpawned = TRUE,
                 !.bsys.bossActive = TRUE]

isBossActive(w) ==
  w.bsys.bossActive /\ w.bsys.boss.exists /\ ~w.bsys.boss.isDead

\* updateDeathAnimation with handleDeathAnimationEnd
updateBossAnimation(b) ==
  IF b.isDead
  THEN LET f == IF b.dyingFrame < 5 THEN b.dyingFrame + 1 ELSE b.dyingFrame
           t == IF f >= 5 /\ ~b.deathAnimationFinished
                THEN b.deathAnimationTimer + 1 ELSE b.deathAnimationTimer
       IN [b EXCEPT !.dyingFrame = f,
                    !.deathAnimationTimer = t,
                    !.gLastFrameAge = IF f < 5 THEN -1
                                      ELSE IF b.dyingFrame < 5 THEN 0
                                      ELSE Min(240, @ + 1),
                    !.deathAnimationFinished =
                       @ \/ (f >= 5 /\ ~b.deathAnimationFinished /\ t >= 120)]
  ELSE b

handleBossDeath(b) ==
  IF b.health <= 0 /\ ~b.isDead
  THEN [b EXCEPT !.isDead = TRUE, !.dyingFrame = 0]
  ELSE b

updateHurtState(b) ==
  IF b.isHurt
  THEN [b EXCEPT !.hurtTimer = @ - 1, !.isHurt = ~(b.hurtTimer - 1 <= 0)]
  ELSE b

updateCooldowns(b) ==
  [b EXCEPT !.attackCooldown = IF @ > 0 THEN @ - 1 ELSE @,
            !.magicAttackCooldown = IF @ > 0 THEN @ - 1 ELSE @]

createFireball(x, y) == [x |-> x, y |-> y]

\* shootFireball: three fireballs at baseY + 40, baseY, baseY - 40
shootFireball(w) ==
  LET baseY == BossY + Px(125)
  IN [w EXCEPT !.bsys.fireballs = @ \o
        << createFireball(BossX + Px(70), baseY + Px(40)),
           createFireball(BossX + Px(70), baseY),
           createFireball(BossX + Px(70), baseY - Px(40)) >>]

shootLightning(w) ==
  [w EXCEPT !.bsys.lightnings =
     Append(@, [x |-> w.player.x - Px(60), y |-> -Px(150)])]

\* what the boss shot: kind, how many, and the age it was shot at
ShotEntry(kind, count, age) == [kind |-> kind, count |-> count, age |-> age]

updateMagicAttack(w) ==
  IF w.bsys.boss.isMagicAttacking
  THEN IF w.bsys.boss.magicAttackTimer + 1 >= 15
       THEN LET w1 == shootFireball(w)
            IN [w1 EXCEPT
                  !.bsys.boss.isMagicAttacking = FALSE,
                  !.bsys.boss.magicAttackTimer = 0,
                  !.bsys.boss.isLightningAttacking = TRUE,
                  !.bsys.boss.gFireAge = 0,
                  !.ghost.shots =
                     Append(@, ShotEntry("fireballs",
                                         Len(w1.bsys.fireballs)
                                           - Len(w.bsys.fireballs),
                                         w.bsys.boss.gMagicAge))]
       ELSE [w EXCEPT !.bsys.boss.magicAttackTimer = @ + 1]
  ELSE w

updateLightningAttack(w) ==
  IF w.bsys.boss.isLightningAttacking
  THEN IF w.bsys.boss.lightningAttackTimer + 1 >= 40
       THEN LET w1 == shootLightning(w)
            IN [w1 EXCEPT
                  !.bsys.boss.isLightningAttacking = FALSE,
                  !.bsys.boss.lightningAttackTimer = 0,
                  !.ghost.shots =
                     Append(@, ShotEntry("lightning",
                                         Len(w1.bsys.lightnings)
                                           - Len(w.bsys.lightnings),
                                         w.bsys.boss.gFireAge))]
       ELSE [w EXCEPT !.bsys.boss.lightningAttackTimer = @ + 1]
  ELSE w

\* BossAttacks.damagePlayer
bossDamagePlayer(p) ==
  LET h == p.health - 20
  IN [p EXCEPT !.health = h,
               !.isHurt = IF h > 0 THEN TRUE ELSE @,
               !.hurtTimer = IF h > 0 THEN 30 ELSE @]

PlayerInMeleeRange(w) == Abs(w.player.x - BossX) <= Px(120)

\* executeMeleeAttack without the test of the distance
executeMeleeAttackAnywhere(w) ==
  IF ~w.bsys.boss.exists \/ w.bsys.boss.isDead THEN w
  ELSE [w EXCEPT !.player = bossDamagePlayer(@),
                 !.bsys.boss.gMeleeHits = @ + 1,
                 !.ghost.bossHits = @ + 1]

executeMeleeAttack(w) ==
  IF ~w.bsys.boss.exists \/ w.bsys.boss.isDead THEN w
  ELSE IF PlayerInMeleeRange(w)
       THEN [w EXCEPT !.player = bossDamagePlayer(@),
                      !.bsys.boss.gMeleeHits = @ + 1,
                      !.ghost.bossHits = @ + 1]
       ELSE w

\* a swing of the boss: where the player stood and the health before and after
SwingEntry(w, after) ==
  [x |-> w.player.x, before |-> w.player.health, after |-> after.player.health,
   hits |-> after.bsys.boss.gMeleeHits]

updateMeleeAttack(w) ==
  IF w.bsys.boss.isAttacking
  THEN LET t == w.bsys.boss.meleeAttackTimer + 1
           w1 == [w EXCEPT !.bsys.boss.meleeAttackTimer = t]
           w2 == IF t = 20
                 THEN LET w3 == executeMeleeAttack(w1)
                      IN [w3 EXCEPT !.ghost.swings =
                                       Append(@, SwingEntry(w1, w3))]
                 ELSE w1
       IN IF t >= 21
          THEN [w2 EXCEPT !.bsys.boss.isAttacking = FALSE,
                          !.bsys.boss.meleeAttackTimer = 0]
          ELSE w2
  ELSE w

updateBossState(w) ==
  IF w.bsys.boss.isDead THEN w
  ELSE LET w1 == [w EXCEPT !.bsys.boss = updateCooldowns(updateHurtState(@))]
       IN updateMeleeAttack(updateLightningAttack(updateMagicAttack(w1)))

startMeleeAttack(b) ==
  [b EXCEPT !.isAttacking = TRUE, !.attackCooldown = 180,
            !.meleeAttackTimer = 0, !.gMeleeHits = 0]

startMagicAttack(b) ==
  [b EXCEPT !.isMagicAttacking = TRUE, !.magicAttackCooldown = 240,
            !.magicAttackTimer = 0, !.gMagicAge = 0]

checkAttackConditions(w) ==
  LET distanceToPlayer == Abs(w.player.x - BossX)
      b == w.bsys.boss
  IN IF distanceToPlayer <= Px(120) /\ b.attackCooldown <= 0
     THEN [w EXCEPT !.bsys.boss = startMeleeAttack(@)]
     ELSE IF /\ distanceToPlayer > Px(120)
             /\ distanceToPlayer <= Px(850)
             /\ b.magicAttackCooldown <= 0
          THEN [w EXCEPT !.bsys.boss = startMagicAttack(@),
                         !.ghost.shots =
                            Append(@, ShotEntry("start", 0, b.gMagicAge))]
          ELSE w

\* updateBossIdle only counts: its return leaves updateBossAI running
updateBossIdle(b) ==
  IF b.idleTime < 60 THEN [b EXCEPT !.idleTime = @ + 1] ELSE b

updateBossAI(w) ==
  LET b == w.bsys.boss
  IN IF b.isHurt \/ b.isAttacking \/ b.isMagicAttacking \/ b.isDead THEN w
     ELSE checkAttackConditions([w EXCEPT !.bsys.boss = updateBossIdle(@)])

\* updateFireballs: move by 3 px, keep those with -100 < x < width + 100
FireballInBounds(f) == f.x > -Px(100) /\ f.x < Px(1280) + Px(100)

updateFireballs(w) ==
  [w EXCEPT !.bsys.fireballs =
     Filter([i \in DOMAIN @ |-> [@[i] EXCEPT !.x = @ + Px(3)]],
            FireballInBounds)]

\* updateLightnings: move by 4 px, keep those above the player's y
updateLightnings(w) ==
  LET moved == [i \in DOMAIN w.bsys.lightnings |->
                  [w.bsys.lightnings[i] EXCEPT !.y = @ + Px(4)]]
      InBounds(l) == l.y < w.player.y
  IN [w EXCEPT !.bsys.lightnings = Filter(moved, InBounds)]

updateBoss(w) ==
  IF ~w.bsys.boss.exists \/ ~w.bsys.bossActive THEN w
  ELSE LET Older(a) == IF a < 0 THEN a ELSE Min(240, a + 1)
           w1 == [w EXCEPT
                   !.bsys.boss = handleBossDeath(updateBossAnimation(
                      [@ EXCEPT !.gMagicAge = Older(@),
                                !.gFireAge = Older(@)]))]
       IN updateLightnings(updateFireballs(updateBossAI(updateBossState(w1))))

----------------------------------------------------------------------------
(* CollisionSystem: spells against the boss, boss attacks against the player *)

\* BossSystem.takeDamage
healthThresholds == {1000, 750, 500, 250}

takeDamage(b, damage) ==
  IF b.exists /\ ~b.isDead
  THEN LET h == b.health - damage
           hurt == \E threshold \in healthThresholds :
                     h <= threshold /\ h + damage > threshold
       IN [b EXCEPT !.health = h,
                    !.isHurt = IF hurt THEN TRUE ELSE @,
                    !.hurtTimer = IF hurt THEN 30 ELSE @,
                    !.gDamageLog = Append(@, DamageEntry("spell", b, h, hurt))]
  ELSE b

getBossHitbox == Box(BossX, BossY, Px(100), Px(200))

handleSpellBossHit(w, i) ==
  LET s == w.spells[i]
  IN IF IsDamagingSpell(s)
     THEN LET b2 == [takeDamage(w.bsys.boss, s.damage) EXCEPT
                       !.gUltLog = IF s.isUltimate THEN Append(@, s.gCastId)
                                   ELSE @]
              w1 == [w EXCEPT !.bsys.boss = b2]
          IN IF ~s.isUltimate
             THEN [w1 EXCEPT !.spells[i] =
                     setSpellExploding([s EXCEPT !.hasHit = TRUE,
                                                 !.gHits = @ + 1])]
             ELSE [w1 EXCEPT !.spells = Splice(@, i)]
     ELSE IF s.isBossLightning
          THEN [w EXCEPT !.spells[i].hasHit = TRUE]
          ELSE w

RECURSIVE SpellBossLoop(_, _, _)
SpellBossLoop(w, i, n) ==
  IF i > n \/ i > Len(w.spells) THEN w
  ELSE SpellBossLoop(
         IF SpellCollides(w.spells[i], getBossHitbox)
         THEN handleSpellBossHit(w, i) ELSE w,
         i + 1, n)

checkSpellBossCollisions(w) ==
  IF ~w.room.inBossRoom \/ ~isBossActive(w) THEN w
  ELSE SpellBossLoop(w, 1, Len(w.spells))

\* hitboxSize = min(30, 30) * 0.7 = 21, centred
createFireballHitbox(f) == Box(f.x + 9, f.y + 9, Px(21), Px(21))

\* x + (spriteWidth - width) / 2, y, 20 x 200
createLightningHitbox(l) == Box(l.x + Px(50), l.y, Px(20), Px(200))

RECURSIVE ShotLoop(_, _, _, _, _, _)
\* forEach over a projectile array whose callback splices the hit element:
\* the element that moves into the freed index is skipped.  boxes[i] is
\* the hitbox of shots[i].
ShotLoop(shots, boxes, p, hits, i, n) ==
  IF i > n \/ i > Len(shots) THEN [shots |-> shots, hits |-> hits]
  ELSE IF checkHitboxCollision(boxes[i], getWraithHitbox(p))
       THEN ShotLoop(Splice(shots, i), Splice(boxes, i), p, hits + 1, i + 1, n)
       ELSE ShotLoop(shots, boxes, p, hits, i + 1, n)

checkFireballCollisions(w) ==
  LET shots == w.bsys.fireballs
      r == ShotLoop(shots, [i \in DOMAIN shots |-> createFireballHitbox(shots[i])],
                    w.player, 0, 1, Len(shots))
      Hit(acc, k) == damagePlayer(acc, 20)
  IN [w EXCEPT !.bsys.fireballs = r.shots,
               !.player = FoldSeq(Hit, @, 1, r.hits),
               !.ghost.shotHits = @ + r.hits]

checkLightningCollisions(w) ==
  LET shots == w.bsys.lightnings
      r == ShotLoop(shots, [i \in DOMAIN shots |-> createLightningHitbox(shots[i])],
                    w.player, 0, 1, Len(shots))
      Hit(acc, k) == damagePlayer(acc, 30)
  IN [w EXCEPT !.bsys.lightnings = r.shots,
               !.player = FoldSeq(Hit, @, 1, r.hits),
               !.ghost.shotHits = @ + r.hits]

checkBossAttackCollisions(w) ==
  IF ~w.room.inBossRoom \/ ~isBossActive(w) THEN w
  ELSE checkLightningCollisions(checkFireballCollisions(w))

checkCollisions(w) ==
  checkGolemPlayerCollisions(
    checkBossAttackCollisions(
      checkSpellGolemCollisions(
        checkSpellBossCollisions(w))))

----------------------------------------------------------------------------
(* PotionSystem, CrystalSystem, BossRoomSystem                              *)

\* calculateDistanceToPlayer(potion, player) <= pickupRange, on the centres;
\* a potion is 32 x 32 and lies at y = 638
InPickupRange(potion, p) ==
  LET dx == p.x + Px(96) \div 2 - (potion.x + Px(32) \div 2)
      dy == p.y + Px(96) \div 2 - (Px(638) + Px(32) \div 2)
  IN dx * dx + dy * dy <= Px(80) * Px(80)

RECURSIVE PotionLoopAgain(_, _, _)
\* PotionLoop without the test of collected
PotionLoopAgain(w, i, n) ==
  IF i > n \/ i > Len(w.potions) THEN w
  ELSE IF InPickupRange(w.potions[i], w.player)
       THEN PotionLoopAgain([w EXCEPT !.player.manaPotions = @ + 1,
                                       !.potions[i].collected = TRUE,
                                       !.potions[i].gPickups = @ + 1],
                            i + 1, n)
       ELSE PotionLoopAgain(w, i + 1, n)

RECURSIVE PotionLoop(_, _, _)
\* the forEach of updateManaPotions: a collected potion is spliced out (and
\* the one behind it skipped), another one is picked up when in range
PotionLoop(w, i, n) ==
  IF i > n \/ i > Len(w.potions) THEN w
  ELSE IF w.potions[i].collected
       THEN PotionLoop([w EXCEPT !.potions = Splice(@, i)], i + 1, n)
       ELSE IF InPickupRange(w.potions[i], w.player)
            THEN PotionLoop([w EXCEPT !.player.manaPotions = @ + 1,
                                      !.potions[i].collected = TRUE,
                                      !.potions[i].gPickups = @ + 1],
                            i + 1, n)
            ELSE PotionLoop(w, i + 1, n)

updateManaPotions(w) == PotionLoop(w, 1, Len(w.potions))

\* checkCrystalSpawn with spawnCrystal
checkCrystalSpawn(w) ==
  IF ~w.crystal.spawned
  THEN [w EXCEPT !.crystal = [spawned |-> TRUE, x |-> w.player.x + Px(2560)]]
  ELSE w

\* the crystal is 160 x 180 at y = 670 - 160
isPlayerOnCrystal(w) ==
  /\ w.crystal.spawned
  /\ Abs(w.player.x + Px(96) \div 2 - (w.crystal.x + Px(160) \div 2)) < Px(100)
  /\ Abs(w.player.y + Px(96) \div 2 - (Px(670 - 160) + Px(180) \div 2)) < Px(100)

stopPlayerMovement(p) == [p EXCEPT !.velocityX = 0, !.velocityY = 0]

enterBossRoom(w) ==
  [w EXCEPT !.room.enteringBossRoom = TRUE,
            !.room.duration = 0,
            !.room.phase = "flying_up",
            !.room.fadeAlpha = 0,
            !.player = stopPlayerMovement(@)]

handleFlyingUpPhase(w) ==
  LET d == w.room.duration + 1
  IN [w EXCEPT !.player.y = @ - Px(8),
               !.room.duration = d,
               !.room.fadeAlpha = Min(120, d),
               !.room.phase = IF d >= 120 THEN "black_screen" ELSE @,
               !.room.blackScreenDuration = IF d >= 120 THEN 0 ELSE @]

activateBossRoom(w) ==
  spawnBoss([w EXCEPT !.room.inBossRoom = TRUE,
                      !.room.phase = "flying_down",
                      !.player.y = -Px(200),
                      !.player.x = Px(1280) \div 2 - Px(96) \div 2,
                      !.room.duration = 0])

handleBlackScreenPhase(w) ==
  LET d == w.room.blackScreenDuration + 1
      w1 == [w EXCEPT !.room.blackScreenDuration = d]
  IN IF d >= 60 THEN activateBossRoom(w1) ELSE w1

\* y = -200 + 700 * min(1, duration / 60), cut to the half pixel
handleFlyingDownPhase(w) ==
  LET d == Min(w.room.duration, 60)
      w1 == [w EXCEPT !.player = stopPlayerMovement(
                                   [@ EXCEPT !.y = -Px(200) + (Px(700) * d) \div 60]),
                      !.room.duration = @ + 1,
                      !.room.fadeAlpha = Max(0, 120 - 2 * d)]
  IN IF d >= 60
     THEN [w1 EXCEPT !.room.enteringBossRoom = FALSE,
                     !.room.fadeAlpha = 0,
                     !.player.y = Px(500),
                     !.player.isGrounded = TRUE,
                     !.player.velocityY = 0]
     ELSE w1

updateBossRoomAnimation(w) ==
  IF ~w.room.enteringBossRoom THEN w
  ELSE IF w.room.phase = "flying_up" THEN handleFlyingUpPhase(w)
  ELSE IF w.room.phase = "black_screen" THEN handleBlackScreenPhase(w)
  ELSE IF w.room.phase = "flying_down" THEN handleFlyingDownPhase(w)
  ELSE w

\* the F2 debug key
spawnDirectlyInBossRoom(w) ==
  spawnBoss([w EXCEPT !.room.inBossRoom = TRUE,
                      !.room.enteringBossRoom = FALSE,
                      !.player.x = Px(800),
                      !.player.y = Px(500),
                      !.player.isGrounded = TRUE,
                      !.player.velocityY = 0])

----------------------------------------------------------------------------
(* GolemSystem: spawning; GameUpdater; Game                                 *)

\* due: now - lastGolemSpawn > golemSpawnInterval; toRight: Math.random
spawnGolems(w, due, toRight) ==
  IF canSpawnGolems(w) /\ due /\ Len(w.golems) < 20
  THEN createGolem(w, FALSE, Px(400), toRight)
  ELSE w

\* due: now - lastEliteGolemSpawn > 15000, certain while it is still 0
spawnEliteGolem(w, due, toRight) ==
  IF canSpawnGolems(w) /\ (due \/ ~w.gsys.eliteEver)
  THEN [createGolem(w, TRUE, Px(500), toRight) EXCEPT !.gsys.eliteEver = TRUE]
  ELSE w

\* in: the wall-clock and random inputs of one call of update
updateGameSystems(w, in) ==
  updateBoss(
    updateBossRoomAnimation(
      updateManaPotions(
        updateSpells(
          updateGolems(
            updatePlayer(w, in.elapsed, in.bonus))))))

updateBossLogic(w) ==
  IF /\ w.room.inBossRoom
     /\ w.bsys.boss.isDead
     /\ w.bsys.boss.deathAnimationFinished
     /\ ~w.screens.end
  THEN [w EXCEPT !.screens.end = TRUE]
  ELSE w

\* sp: whether each spawn interval has elapsed, and the sides drawn
updateCollisionsAndSpawning(w, sp) ==
  checkCrystalSpawn(
    spawnEliteGolem(
      spawnGolems(w, sp.normalDue, sp.normalRight),
      sp.eliteDue, sp.eliteRight))

updateScoreAndCleanup(w) ==
  LET n == Cardinality({i \in DOMAIN w.golems : Sentinel(w.golems[i])})
  IN [w EXCEPT !.golems = Filter(@, NotSentinel),
               !.game.score = @ + 100 * n,
               !.ghost.removed = @ \o RemovedLog(w.golems, "cleanup")]

\* a call of update that gets past the two early returns
IsGameplay(w) == ~w.screens.start /\ ~w.game.gameOver

\* GameUpdater.update up to and including checkCollisions
updateToCollisions(w, in) ==
  checkCollisions(updateBossLogic(updateGameSystems(w, in)))

\* GameUpdater.update from spawnGolems on
updateFromSpawning(w, sp) ==
  updateScoreAndCleanup(updateCollisionsAndSpawning(w, sp))

\* startGame without bossRoomSystem.reset()
startGameInRoom(w) ==
  [w EXCEPT
    !.player = createPlayerObject,
    !.golems = <<>>,
    !.gsys.golemSpawnInterval = 2000,
    !.gsys.golemHPMultiplier = 4,
    !.spells = <<>>,
    !.crystal = CrystalConstructor,
    !.bsys = BossSystemConstructor,
    !.potions = <<>>,
    !.game = GameConstructor,
    !.screens = [start |-> FALSE, end |-> FALSE, gameOver |-> FALSE]]

\* Game.startGame, with the reset of every system and the hide of every
\* screen; lastEliteGolemSpawn and the keys are not reset
startGame(w) ==
  [w EXCEPT
    !.player = createPlayerObject,
    !.golems = <<>>,
    !.gsys.golemSpawnInterval = 2000,
    !.gsys.golemHPMultiplier = 4,
    !.spells = <<>>,
    !.crystal = CrystalConstructor,
    !.room = BossRoomConstructor,
    !.bsys = BossSystemConstructor,
    !.potions = <<>>,
    !.game = GameConstructor,
    !.screens = [start |-> FALSE, end |-> FALSE, gameOver |-> FALSE]]

togglePause(w) == [w EXCEPT !.game.isPaused = ~@]

\* EventHandler.resetToMainMenu with StartScreenSystem.resetAndShow
resetToMainMenu(w) ==
  [w EXCEPT
    !.game = GameConstructor,
    !.screens = [start |-> TRUE, end |-> FALSE, gameOver |-> FALSE],
    !.room.inBossRoom = FALSE,
    !.room.enteringBossRoom = FALSE]

\* GameOverScreen.handleRestartGame, EndScreen.handleButtonSelect(0)
handleRestartGame(w) == startGame(w)

\* GameOverScreen.handleBackToMenu, EndScreen.handleButtonSelect(1)
handleBackToMenu(w) ==
  [w EXCEPT
    !.game.gameOver = FALSE,
    !.screens = [start |-> TRUE, end |-> FALSE, gameOver |-> FALSE],
    !.room.inBossRoom = FALSE,
    !.room.enteringBossRoom = FALSE]

handleBossRoomEntry(w) ==
  IF w.game.score >= 5000 /\ isPlayerOnCrystal(w) THEN enterBossRoom(w) ELSE w

Codes ==
  {"ArrowLeft", "ArrowRight", "KeyA", "Space", "KeyQ", "KeyR", "KeyE",
   "Escape", "F2"}

\* WraithInput.handleKeyDown
wraithHandleKeyDown(w, code) ==
  IF w.game.gameOver THEN w
  ELSE CASE code = "ArrowLeft" -> [w EXCEPT !.player = handleLeftArrow(@)]
         [] code = "ArrowRight" -> [w EXCEPT !.player = handleRightArrow(@)]
         [] code = "KeyA" -> handleAutoAttack(w)
         [] code = "Space" -> [w EXCEPT !.player = handleJump(@)]
         [] code = "KeyQ" -> [w EXCEPT !.player = handleManaPotion(@)]
         [] code = "KeyR" -> [w EXCEPT !.player = handleUltimate(@)]
         [] code = "KeyE" -> handleBossRoomEntry(w)
         [] code = "Escape" -> togglePause(w)
         [] OTHER -> w

\* the keydown listener with EventHandler.handleKeyDown; the keys the three
\* screens react to are the actions named after their handlers below
handleKeyDown(w, code) ==
  LET w1 == IF code \in DOMAIN w.keys
            THEN [w EXCEPT !.keys[code] = TRUE] ELSE w
  IN IF w1.screens.start \/ w1.screens.end \/ w1.screens.gameOver THEN w1
     ELSE LET w2 == wraithHandleKeyDown(w1, code)
          IN IF code = "F2" THEN spawnDirectlyInBossRoom(w2) ELSE w2

\* the keyup listener
handleKeyUp(w, code) == [w EXCEPT !.keys[code] = FALSE]

----------------------------------------------------------------------------
(* The environment: inputs of a tick                                        *)

\* the distances 300 + Math.random() * 200 that are explored
BonusDistances == {Px(300), Px(450)}

BonusDraw == [distance : BonusDistances, toRight : BOOLEAN]

NoBonus == [i \in 1..3 |-> [distance |-> Px(300), toRight |-> TRUE]]

\* Math.random is read only when the ultimate is released in this tick
BonusChoices(w) ==
  IF IsGameplay(w) /\ w.player.isCastingUltimate
       /\ w.player.ultimateCastingFrame >= 5
  THEN [1..3 -> BonusDraw]
  ELSE {NoBonus}

\* the dying delay is read only from the last frame of the death animation
ElapsedChoices(w) ==
  IF IsGameplay(w) /\ w.player.isDying /\ w.player.dyingFrame >= 13
       /\ w.player.dyingAge < 99
  THEN BOOLEAN
  ELSE {FALSE}

NoSpawn ==
  [normalDue |-> FALSE, normalRight |-> TRUE,
   eliteDue |-> FALSE, eliteRight |-> TRUE]

SpawnCost(sp) ==
  (IF sp.normalDue THEN 1 ELSE 0) + (IF sp.eliteDue THEN 1 ELSE 0)

\* the spawn timers are read only when canSpawnGolems; an elapsed interval
\* counts as an input of the environment (budget is what is left of them)
SpawnChoices(w, gameplay, budget) ==
  IF gameplay /\ canSpawnGolems(w)
  THEN {sp \in [normalDue : BOOLEAN, normalRight : BOOLEAN,
                eliteDue : BOOLEAN, eliteRight : BOOLEAN] :
          /\ SpawnCost(sp) <= budget
          /\ sp.normalDue => Len(w.golems) < 20
          /\ ~sp.normalDue => sp.normalRight
          /\ ~w.gsys.eliteEver => ~sp.eliteDue
          /\ (~sp.eliteDue /\ w.gsys.eliteEver) => sp.eliteRight}
  ELSE {NoSpawn}

\* the logs of the previous call of update are dropped; every spell keeps
\* the lifetime it had before the call (gLifetimeBefore)
ClearLogs(w) ==
  [w EXCEPT
    !.ghost.removed = <<>>, !.ghost.hits = <<>>, !.ghost.rescaled = <<>>,
    !.ghost.meleeHits = 0, !.ghost.bossHits = 0, !.ghost.shotHits = 0,
    !.ghost.finished = <<>>, !.ghost.spawned = <<>>,
    !.ghost.shots = <<>>, !.ghost.swings = <<>>,
    !.ghost.dyingDelay = "unread", !.ghost.casts = <<>>,
    !.bsys.boss.gDamageLog = <<>>,
    !.golems = [i \in DOMAIN w.golems |->
                  [w.golems[i] EXCEPT !.gKilledNow = FALSE]],
    !.spells = [i \in DOMAIN w.spells |->
                  [w.spells[i] EXCEPT !.gLifetimeBefore = w.spells[i].lifetime]]]

Becomes(w) ==
  /\ game' = w.game
  /\ screens' = w.screens
  /\ room' = w.room
  /\ keys' = w.keys
  /\ player' = w.player
  /\ gsys' = w.gsys
  /\ golems' = w.golems
  /\ spells' = w.spells
  /\ potions' = w.potions
  /\ crystal' = w.crystal
  /\ bsys' = w.bsys
  /\ ghost' = w.ghost

Input(w) == Becomes([w EXCEPT !.ghost.events = @ + 1])

\* GameUpdater.update in a frame in which no clock and no random number is
\* read to an effect: no dying delay over, no spawn interval elapsed
update(w) ==
  IF IsGameplay(w)
  THEN updateFromSpawning(
         updateToCollisions(ClearLogs(w),
                            [elapsed |-> FALSE, bonus |-> NoBonus]),
         NoSpawn)
  ELSE w

RECURSIVE Idle(_, _)
\* the game n such frames later, no event in between (once the game is
\* over, update returns at once)
Idle(w, n) ==
  IF n = 0 THEN w
  ELSE LET next == update(w)
       IN IF IsGameplay(next) THEN Idle(next, n - 1) ELSE next

----------------------------------------------------------------------------
(* Actions                                                                  *)

\* Game.gameLoop: one frame in which update is called
Tick(maxTicks, maxEvents) ==
  /\ ~game.isPaused
  /\ ghost.ticks < maxTicks
  /\ \E elapsed \in ElapsedChoices(World), bonus \in BonusChoices(World) :
       LET w0 == ClearLogs(World)
           gameplay == IsGameplay(w0)
           w1 == IF gameplay
                 THEN updateToCollisions(w0, [elapsed |-> elapsed,
                                              bonus |-> bonus])
                 ELSE w0
       IN \E sp \in SpawnChoices(w1, gameplay, maxEvents - ghost.events) :
            LET w2 == IF gameplay THEN updateFromSpawning(w1, sp) ELSE w1
            IN Becomes([w2 EXCEPT !.ghost.ticks = @ + 1,
                                  !.ghost.events = @ + SpawnCost(sp)])

KeyDown(code) == Input(handleKeyDown(World, code))

KeyUp(code) == keys[code] /\ Input(handleKeyUp(World, code))

MouseDown == Input(handleMouseDown(World))

\* StartScreenSystem.startGame, reached from the start screen's menu
StartScreenStart == screens.start /\ Input(startGame(World))

GameOverRestart ==
  /\ ~screens.start /\ ~screens.end /\ screens.gameOver
  /\ Input(handleRestartGame(World))

GameOverBackToMenu ==
  /\ ~screens.start /\ ~screens.end /\ screens.gameOver
  /\ Input(handleBackToMenu(World))

EndScreenRestart ==
  /\ ~screens.start /\ screens.end
  /\ Input(handleRestartGame(World))

EndScreenBackToMenu ==
  /\ ~screens.start /\ screens.end
  /\ Input(handleBackToMenu(World))

\* handleMouseClick on the button of the pause overlay
PauseButtonClick ==
  /\ ~screens.start /\ ~screens.end /\ ~screens.gameOver /\ game.isPaused
  /\ Input(resetToMainMenu(World))

----------------------------------------------------------------------------
(* The game from its construction                                           *)

MaxTicks == 6

MaxEvents == 3

KeysConstructor == [ArrowLeft |-> FALSE, ArrowRight |-> FALSE]

Init ==
  /\ game = GameConstructor
  /\ screens = ScreensConstructor
  /\ room = BossRoomConstructor
  /\ keys = KeysConstructor
  /\ player = createPlayerObject
  /\ gsys = GolemSystemConstructor
  /\ golems = <<>>
  /\ spells = <<>>
  /\ potions = <<>>
  /\ crystal = CrystalConstructor
  /\ bsys = BossSystemConstructor
  /\ ghost = GhostInit

Next ==
  \/ Tick(MaxTicks, MaxEvents)
  \/ \E code \in Codes : ghost.events < MaxEvents /\ KeyDown(code)
  \/ \E code \in DOMAIN keys : ghost.events < MaxEvents /\ KeyUp(code)
  \/ ghost.events < MaxEvents /\ MouseDown
  \/ ghost.events < MaxEvents /\ StartScreenStart
  \/ ghost.events < MaxEvents /\ PauseButtonClick

Spec == Init /\ [][Next]_vars

----------------------------------------------------------------------------
(* Melee and spell combat in the overworld                                  *)

\* the variables hold the world w
Is(w) ==
  /\ game = w.game
  /\ screens = w.screens
  /\ room = w.room
  /\ keys = w.keys
  /\ player = w.player
  /\ gsys = w.gsys
  /\ golems = w.golems
  /\ spells = w.spells
  /\ potions = w.potions
  /\ crystal = w.crystal
  /\ bsys = w.bsys
  /\ ghost = w.ghost

\* A game in play after n ultimate casts (each fed by the potion of an elite
\* golem killed with a spell: 10 + 100 + 2500 points): the player has jumped
\* once, which sets hasMoved, and stands on the ground at its start
\* position with no key held; the crystal was placed by the first tick; gs
\* are the golems alive, none of them hit by a later cast than the n-th.
Playing(n, health, mana, gs) ==
  [game |-> [GameConstructor EXCEPT !.score = 2610 * n,
                                    !.ultimateCastId = n],
   screens |-> [start |-> FALSE, end |-> FALSE, gameOver |-> FALSE],
   room |-> BossRoomConstructor,
   keys |-> KeysConstructor,
   player |-> [createPlayerObject EXCEPT
                 !.y = Px(670 - 96), !.isGrounded = TRUE, !.hasMoved = TRUE,
                 !.health = health, !.mana = mana,
                 !.ultimateReady = mana >= 100,
                 !.sSkillDamage = 30 + 15 * n,
                 !.ultimateDamage = 100 + 100 * (n \div 5),
                 !.ultimateCastCount = n],
   gsys |-> [golemHPMultiplier |-> Min(4 + n, 8),
             golemSpawnInterval |-> IF n = 0 THEN 2000
                                    ELSE IF n = 1 THEN 1750 ELSE 1500,
             eliteEver |-> TRUE],
   golems |-> gs,
   spells |-> <<>>,
   potions |-> <<>>,
   crystal |-> [spawned |-> TRUE, x |-> Px(100 + 2560)],
   bsys |-> BossSystemConstructor,
   ghost |-> [GhostInit EXCEPT !.nextId = Len(gs) + 1]]

\* A golem created under the multiplier q that stands d half pixels to the
\* right of the player (x = 100), which it faces; lastHit is the ultimate
\* cast that hit it, or -1.
Golem(id, isElite, q, d, health, lastHit) ==
  [createGolemData(isElite, Px(100) + d, q, id) EXCEPT
     !.health = health, !.facingRight = FALSE,
     !.lastUltimateHit = lastHit,
     !.gUltLog = IF lastHit = -1 THEN <<>> ELSE <<lastHit>>]

\* g in a swing begun 20 - timer ticks ago: handleGolemAttack set the timer
\* to 20 and the cooldown to 72, updateGolemTimers decrements both
Swinging(g, timer) ==
  [g EXCEPT !.isAttacking = TRUE, !.attackTimer = timer,
            !.attackCooldown = timer + 52, !.currentAnimation = "attacking",
            !.frameCount = 9, !.gAttackAge = 20 - timer]

\* g walking up to the player
Walking(g) == [g EXCEPT !.currentAnimation = "walking", !.frameCount = 6]

\* g killed by a direct spell hit (health <= 0, reward granted) frame frames
\* into its death animation, which it began with frameCount 0
Dying(g, frame) ==
  [g EXCEPT !.isDying = TRUE, !.dyingFrame = frame,
            !.currentAnimation = "dying", !.frameCount = 5, !.gRewards = 1,
            !.gDyingTicks = 2 * frame + 1, !.gDeathAwards = 1]

\* w with the player 15 frames into the cast of a spell
Casting(w) ==
  [w EXCEPT !.player.isCasting = TRUE, !.player.castingFrame = 15,
            !.player.currentAnimation = "casting",
            !.player.gCastTicks = 15]

\* An elite golem swinging at the player, who may be casting.
SceneElite ==
  Playing(0, 100, 0, << Swinging(Golem(1, TRUE, 4, 118, 150, -1), 8) >>)

\* A golem that two spells have hit (90 - 30 - 30) and a second golem, both
\* swinging at the player, who is at full or at low health.
SceneTwo(health) ==
  Playing(0, health, 0,
          << Swinging(Golem(1, FALSE, 4, 118, 30, -1), 8),
             Swinging(Golem(2, FALSE, 4, 117, 90, -1), 10) >>)

\* After the first cast (damage 45, splash 22, multiplier 1.25): a golem the
\* cast did not reach, and the elite golem it hit (187 - 100) after three
\* splashes (87 - 3 * 22), both in reach of the player.
SceneSplash ==
  Playing(1, 100, 0,
          << Swinging(Golem(1, FALSE, 5, 118, 112, -1), 8),
             Walking(Golem(2, TRUE, 5, 126, 21, 1)) >>)

\* After 19 golems killed by direct hits and one by a splash (2190 points,
\* 98 mana): a golem that the third spell has just killed (10 + 100 points,
\* the mana capped at 100) and an elite golem behind it.
SceneDead ==
  [Playing(0, 100, 100,
           << Dying(Golem(1, FALSE, 4, 118, 0, -1), 2),
              Walking(Golem(2, TRUE, 4, 130, 150, -1)) >>)
   EXCEPT !.game.score = 2300]

\* The same before that kill: the golem has 30 left.
SceneLast ==
  [Playing(0, 100, 98,
           << Swinging(Golem(1, FALSE, 4, 118, 30, -1), 8),
              Walking(Golem(2, TRUE, 4, 130, 150, -1)) >>)
   EXCEPT !.game.score = 2190]

CombatScenes ==
  {SceneElite, Casting(SceneElite), SceneTwo(100), Casting(SceneTwo(100)),
   SceneTwo(20), Casting(SceneSplash), Casting(SceneLast), Casting(SceneDead)}

CombatInit == \E w \in CombatScenes : Is(w)

CombatTicks == 8

CombatEvents == 2

CombatCodes == {"ArrowLeft", "ArrowRight", "F2"}

CombatNext ==
  \/ Tick(CombatTicks, CombatEvents)
  \/ \E code \in CombatCodes : ghost.events < CombatEvents /\ KeyDown(code)
  \/ ghost.events < CombatEvents /\ MouseDown

SpecCombat == CombatInit /\ [][CombatNext]_vars

----------------------------------------------------------------------------
(* The ultimate                                                             *)

\* A game with the mana refilled by a potion (of one more elite golem, 110
\* points), the golems walking up to the player.
Charged(n, gs) ==
  [Playing(n, 100, 100, [i \in DOMAIN gs |-> Walking(gs[i])])
   EXCEPT !.game.score = @ + 110]

\* Before the first cast: a golem hit by one splash (90 - 15) and a fresh
\* elite golem.
SceneFirst ==
  Charged(0, << Golem(1, FALSE, 4, Px(200), 75, -1),
                Golem(2, TRUE, 4, Px(260), 150, -1) >>)

\* After one cast: a fresh golem and the elite golem the cast hit.
SceneSecond ==
  Charged(1, << Golem(1, FALSE, 5, Px(200), 112, -1),
                Golem(2, TRUE, 5, Px(260), 87, 1) >>)

\* After four casts (multiplier 2.0, damage 90): a golem two spells have
\* killed, and an elite golem hit by the fourth cast and by one spell
\* (300 - 100 - 90).
SceneFifth ==
  Charged(4, << Dying(Golem(1, FALSE, 8, Px(200), 0, -1), 2),
                Golem(2, TRUE, 8, Px(260), 110, 4) >>)

\* After seven casts (damage 135, splash 67): a fresh elite golem and a golem
\* after one splash each (300 - 67, 180 - 67).
SceneEighth ==
  Charged(7, << Golem(1, TRUE, 8, Px(200), 233, -1),
                Golem(2, FALSE, 8, Px(260), 113, -1) >>)

\* The second scene after the F2 key has taken the player to the boss.
SceneBoss == spawnDirectlyInBossRoom(SceneSecond)

UltimateScenes ==
  {SceneFirst, SceneSecond, SceneFifth, SceneEighth, SceneBoss}

UltimateInit == \E w \in UltimateScenes : Is(w)

UltimateTicks == 8

UltimateEvents == 1

UltimateCodes == {"KeyR", "F2"}

UltimateNext ==
  \/ Tick(UltimateTicks, UltimateEvents)
  \/ \E code \in UltimateCodes :
       ghost.events < UltimateEvents /\ KeyDown(code)

SpecUltimate == UltimateInit /\ [][UltimateNext]_vars

----------------------------------------------------------------------------
(* The death of the player                                                  *)

\* The player at health 20 between two golems in their swings, and the same
\* game fourteen frames later, late in the death animation.
\* the player has been dying for 95 frames, each shorter than 1500 / 100 ms
SceneDying11 == Idle(SceneTwo(20), 14)

SceneDying39 == Idle(SceneDying11, 28)

SceneDying67 == Idle(SceneDying39, 28)

SceneLateDying == Idle(SceneDying67, 28)

DeathScenes == {SceneTwo(20), SceneDying11, SceneLateDying}

DeathInit == \E w \in DeathScenes : Is(w)

DeathTicks == 8

DeathEvents == 2

DeathCodes == {"ArrowLeft", "Space", "KeyA", "Escape"}

DeathNext ==
  \/ Tick(DeathTicks, DeathEvents)
  \/ \E code \in DeathCodes : ghost.events < DeathEvents /\ KeyDown(code)
  \/ ghost.events < DeathEvents /\ MouseDown
  \/ ghost.events < DeathEvents /\ GameOverRestart
  \/ ghost.events < DeathEvents /\ GameOverBackToMenu
  \/ ghost.events < DeathEvents /\ StartScreenStart
  \/ ghost.events < DeathEvents /\ PauseButtonClick

SpecDeath == DeathInit /\ [][DeathNext]_vars

----------------------------------------------------------------------------
(* Properties                                                               *)

\* a step that is a call of update getting past its two early returns
CompleteTick == ghost.ticks' # ghost.ticks /\ IsGameplay(World)

FlagCount(p) ==
  (IF p.isCasting THEN 1 ELSE 0) + (IF p.isCastingUltimate THEN 1 ELSE 0)
    + (IF p.isHurt THEN 1 ELSE 0) + (IF p.isDying THEN 1 ELSE 0)

\* C1: in every reachable state at most one of the player flags isCasting,
\* isCastingUltimate, isHurt, isDying is true.
C1_FlagsExclusive == FlagCount(player) <= 1

LatchJustified(g, p) ==
  g.hasDealtDamage => IsGolemAttacking(g) /\ GolemTouchesPlayer(g, p)

C4_OneHitPerSwing == \A i \in DOMAIN golems : golems[i].gSwingHits <= 1

GolemStateCount(g) ==
  (IF g.health > 0 THEN 1 ELSE 0) + (IF g.isDying THEN 1 ELSE 0)
    + (IF g.health = -1 THEN 1 ELSE 0)

\* C5: after every complete tick every golem of the live list satisfies
\* exactly one of health > 0, isDying, health = -1.
C5_ExactlyOneState ==
  [][CompleteTick =>
       \A i \in DOMAIN golems' : GolemStateCount(golems'[i]) = 1]_vars

\* C6: every golem a tick removes from the live list was isDying and at the
\* last frame of its death animation, and did not lose its last health in
\* that same tick.
C6_TwoPhaseDeath ==
  \A k \in DOMAIN ghost.removed :
    /\ ghost.removed[k].isDying
    /\ ghost.removed[k].dyingFrame = 14
    /\ ~ghost.removed[k].killedNow

\* C9: while the player is isDying no step changes its health or isHurt, or
\* raises its hurtTimer.
C9_DyingIgnoresDamage ==
  [][(player.isDying /\ player'.isDying) =>
       /\ player'.health = player.health
       /\ player'.isHurt = player.isHurt
       /\ player'.hurtTimer <= player.hurtTimer]_vars

IsKill(e) == e.oldHealth > 0 /\ e.health <= 0

\* C10: a direct spell hit of damage d subtracts exactly d from the golem's
\* health; if the golem survives it is hurt for 15 ticks and neither score
\* nor mana changes; score +10 and mana +5 (capped at 100) are granted if
\* and only if the hit takes the health from > 0 to <= 0, and so at most
\* once per golem.
C10_DirectHit ==
  /\ \A k \in DOMAIN ghost.hits :
       LET e == ghost.hits[k]
       IN e.kind = "direct" =>
            /\ e.health = e.oldHealth - e.damage
            /\ e.health > 0 => e.isHurt /\ e.hurtTimer = 15
            /\ IsKill(e) => /\ e.score = e.oldScore + 10
                            /\ e.mana = Min(100, e.oldMana + 5)
            /\ ~IsKill(e) => e.score = e.oldScore /\ e.mana = e.oldMana
  /\ \A i \in DOMAIN golems : golems[i].gRewards <= 1

\* a direct hit has killed a golem while the mana was above 95
C10_Witness ==
  \E k \in DOMAIN ghost.hits :
    /\ ghost.hits[k].kind = "direct"
    /\ IsKill(ghost.hits[k])
    /\ ghost.hits[k].oldMana > 95

NoRepeat(q) == \A a, b \in DOMAIN q : a # b => q[a] # q[b]

\* C2: no golem and no boss loses health to the same ultimate cast twice:
\* the casts that damaged a target (at the cast itself or through a spell
\* record of the cast in a collision pass) are pairwise distinct.
C2_UltimateOnce ==
  /\ \A i \in DOMAIN golems : NoRepeat(golems[i].gUltLog)
  /\ bsys.boss.exists => NoRepeat(bsys.boss.gUltLog)

\* a tick after the cast, the lightning record of the cast overlaps the
\* golem the cast has stamped
C2_Witness ==
  \E i \in DOMAIN golems, j \in DOMAIN spells :
    /\ spells[j].isGolemLightning
    /\ spells[j].lifetime <= 94
    /\ spells[j].gCastId = golems[i].lastUltimateHit
    /\ golems[i].gUltLog # <<>>
    /\ checkHitboxCollision(getSpellHitbox(spells[j]),
                            getGolemHitbox(golems[i]))

\* C7: increaseGolemHP gives every golem with health > 0 the maximum
\* floor(base * multiplier) and the health
\* floor(newMaxHealth * oldHealth / oldMaxHealth), and leaves the others.
C7_RatioPreserved ==
  \A k \in DOMAIN ghost.rescaled :
    LET e == ghost.rescaled[k]
    IN IF e.oldHealth > 0
       THEN /\ e.maxHealth = ScaledMaxHP(GolemBaseHP(e.isElite),
                                         gsys.golemHPMultiplier)
            /\ e.health = (e.maxHealth * e.oldHealth) \div e.oldMax
       ELSE e.health = e.oldHealth /\ e.maxHealth = e.oldMax

----------------------------------------------------------------------------
(* The death of a golem                                                     *)

\* The player about to release a spell at a golem with 30 left that is in
\* its swing: the attack animation adds 0.9 to frameCount in every tick, so
\* frameCount alternates between 0 and 0.9.
SceneKill(isElite, frameCount) ==
  Casting(Playing(0, 100, 0,
                  << [Swinging(Golem(1, isElite, 4, 118, 30, -1), 8)
                        EXCEPT !.frameCount = frameCount] >>))

\* The same games 27 frames later, late in the golem's death animation.
DyingScenes ==
  {Idle(SceneKill(FALSE, 9), 27), Idle(SceneKill(FALSE, 0), 27),
   Idle(SceneKill(TRUE, 9), 27), Idle(SceneKill(TRUE, 0), 27)}

DyingInit == \E w \in DyingScenes : Is(w)

DyingTicks == 8

DyingEvents == 1

DyingCodes == {"ArrowRight", "Space", "F2"}

DyingNext ==
  \/ Tick(DyingTicks, DyingEvents)
  \/ \E code \in DyingCodes : ghost.events < DyingEvents /\ KeyDown(code)
  \/ ghost.events < DyingEvents /\ MouseDown

SpecDying == DyingInit /\ [][DyingNext]_vars

\* C11: a golem that is removed after its death animation has been updated
\* as a dying golem in exactly 30 calls of update, the first of them the
\* call that set isDying, and ends at dyingFrame 14; no golem is updated as
\* a dying golem more often.
C11_ThirtyTicks ==
  /\ \A k \in DOMAIN ghost.removed :
       ghost.removed[k].isDying =>
         ghost.removed[k].dyingTicks = 30 /\ ghost.removed[k].dyingFrame = 14
  /\ \A i \in DOMAIN golems : golems[i].gDyingTicks <= 30

\* C12: every elite golem that leaves the live list has dropped its mana
\* potion: handleEliteGolemDeath has called spawnManaPotion for it, which
\* sets potionDropped, the latch that keeps the call from being repeated.
C12_OnePotionPerElite ==
  \A k \in DOMAIN ghost.removed :
    ghost.removed[k].isElite => ghost.removed[k].potionDropped

\* C13: when the n-th ultimate cast of a game has been completed, n >= 1,
\* the mana is 0, ultimateReady is false, sSkillDamage is 30 + 15 * n and
\* ultimateDamage is 100 + 100 * floor(n / 5).
C13_AfterUltimate ==
  \A k \in DOMAIN ghost.finished :
    LET e == ghost.finished[k]
    IN /\ e.n >= 1
       /\ e.mana = 0
       /\ ~e.ultimateReady
       /\ e.sSkillDamage = 30 + 15 * e.n
       /\ e.ultimateDamage = 100 + 100 * (e.n \div 5)

\* the fifth cast of a game has been completed
C13_Witness ==
  \E k \in DOMAIN ghost.finished :
    ghost.finished[k].n = 5 /\ ghost.finished[k].ultimateDamage = 200

----------------------------------------------------------------------------
(* The boss under damage                                                    *)

CrossesThreshold(e) ==
  \E threshold \in healthThresholds :
    e.oldHealth > threshold /\ e.health <= threshold

\* C14: every damage application to a living boss, by a normal spell or by
\* an ultimate cast, raises the hurt flash exactly when it takes the health
\* from above one of the thresholds 1000, 750, 500, 250 to at or below it.
C14_FlashOnThreshold ==
  \A k \in DOMAIN bsys.boss.gDamageLog :
    LET e == bsys.boss.gDamageLog[k]
    IN ~e.wasDead => (e.flash <=> CrossesThreshold(e))

\* the player, charged, has walked up to the boss and releases a spell at it
SceneDuel(health) ==
  Casting([spawnDirectlyInBossRoom(Charged(7, <<>>)) EXCEPT
             !.player.x = Px(300), !.player.facingRight = FALSE,
             !.bsys.boss.health = health, !.bsys.boss.idleTime = 60])

BossScenes ==
  {SceneDuel(55), Idle(SceneDuel(55), 6), SceneDuel(800), SceneDuel(1000)}

BossInit == \E w \in BossScenes : Is(w)

BossTicks == 12

BossEvents == 1

BossCodes == {"KeyR", "KeyA", "ArrowRight"}

BossNext ==
  \/ Tick(BossTicks, BossEvents)
  \/ \E code \in BossCodes : ghost.events < BossEvents /\ KeyDown(code)

SpecBoss == BossInit /\ [][BossNext]_vars

BossAttackFlags(b) ==
  {f \in {"melee", "magic", "lightning"} :
     \/ f = "melee" /\ b.isAttacking
     \/ f = "magic" /\ b.isMagicAttacking
     \/ f = "lightning" /\ b.isLightningAttacking}

\* C15: once the boss is dead its health is never modified again, no attack
\* flag is set, and no fireball or lightning is spawned.
C15_DeadBossUntouched ==
  [][(bsys.boss.isDead /\ bsys'.boss.isDead) =>
       /\ bsys'.boss.health = bsys.boss.health
       /\ BossAttackFlags(bsys'.boss) \subseteq BossAttackFlags(bsys.boss)
       /\ Len(bsys'.fireballs) <= Len(bsys.fireballs)
       /\ Len(bsys'.lightnings) <= Len(bsys.lightnings)]_vars

----------------------------------------------------------------------------
(* The pause                                                                *)

\* the timers, frame counters and animation flags of the player
PlayerAnimation(p) ==
  [isCasting |-> p.isCasting, castingFrame |-> p.castingFrame,
   isCastingUltimate |-> p.isCastingUltimate,
   ultimateCastingFrame |-> p.ultimateCastingFrame,
   isHurt |-> p.isHurt, hurtTimer |-> p.hurtTimer,
   isDying |-> p.isDying, dyingFrame |-> p.dyingFrame,
   isJumping |-> p.isJumping]

\* C16: while the game stays paused, no loop callback and no input event
\* changes a timer, frame counter or animation state of the player, the
\* golems, the boss, the projectiles or the room transition.
C16_PausedFrozen ==
  [][(game.isPaused /\ game'.isPaused) =>
       /\ PlayerAnimation(player') = PlayerAnimation(player)
       /\ golems' = golems
       /\ bsys' = bsys
       /\ spells' = spells
       /\ room' = room]_vars

----------------------------------------------------------------------------
(* Spawning                                                                 *)

\* C17: no golem, normal, elite or bonus, is pushed to the live list while
\* the player has not moved, the boss-room transition is active or the boss
\* room has been entered.
C17_SpawnOnlyInOverworld ==
  \A k \in DOMAIN ghost.spawned :
    LET e == ghost.spawned[k]
    IN e.hasMoved /\ ~e.inBossRoom /\ ~e.enteringBossRoom

\* nineteen golems spawned behind a player who kept ahead of them
CrowdGolems ==
  [i \in 1..19 |-> Golem(i, FALSE, 5, -(300 + 60 * i), 112, -1)]

SceneCrowd == Charged(1, CrowdGolems)

CrowdInit == Is(SceneCrowd)

CrowdTicks == 7

CrowdEvents == 2

CrowdCodes == {"KeyA", "Space", "ArrowRight"}

CrowdNext ==
  \/ Tick(CrowdTicks, CrowdEvents)
  \/ \E code \in CrowdCodes : ghost.events < CrowdEvents /\ KeyDown(code)

SpecCrowd == CrowdInit /\ [][CrowdNext]_vars

\* C18: the live golem list never holds more than 20 golems, whatever the
\* variants spawned.
C18_AtMostTwenty == Len(golems) <= 20

----------------------------------------------------------------------------
(* The way into the boss room                                               *)

\* C19: the transition starts only in the overworld with score >= 5000 and
\* the player on the crystal; flying_up turns into black_screen only after
\* 120 ticks and no phase is restarted; inBossRoom becomes true, and the
\* boss is spawned, only at the end of the 60 ticks of black_screen.
C19_PhaseOrder ==
  [][/\ (~room.enteringBossRoom /\ room'.enteringBossRoom) =>
          (~room.inBossRoom /\ game.score >= 5000 /\ isPlayerOnCrystal(World)
             /\ room'.phase = "flying_up")
     /\ (room.enteringBossRoom /\ room'.enteringBossRoom
            /\ room'.phase = room.phase) =>
          room'.duration >= room.duration
     /\ (room.enteringBossRoom /\ room'.phase # room.phase) =>
          \/ room.phase = "flying_up" /\ room'.phase = "black_screen"
               /\ room'.duration = 120
          \/ room.phase = "black_screen" /\ room'.phase = "flying_down"
               /\ room'.blackScreenDuration = 60
     /\ ((~room.inBossRoom /\ room'.inBossRoom)
            \/ (~bsys.bossSpawned /\ bsys'.bossSpawned)) =>
          (room.enteringBossRoom /\ room.phase = "black_screen"
             /\ room'.phase = "flying_down")]_vars

----------------------------------------------------------------------------
(* The score of a death                                                     *)

\* C20: every golem that leaves the list was awarded the 100 points of
\* handleGolemDeath in the tick that set isDying, and the 100 points of the
\* cleanup pass, given when that pass finds it at health -1, come on top of
\* that first award.
C20_AwardAtDeathAndCleanup ==
  /\ \A i \in DOMAIN golems :
       golems[i].gDeathAwards = IF golems[i].isDying THEN 1 ELSE 0
  /\ \A k \in DOMAIN ghost.removed :
       ghost.removed[k].isDying /\ ghost.removed[k].deathAwards = 1

----------------------------------------------------------------------------
(* The transition into the boss room                                        *)

\* the player, with score >= 5000, has walked onto the crystal
SceneCrystal ==
  [Playing(2, 100, 0, <<>>) EXCEPT !.player.x = Px(2692)]

\* d < 120 frames into flying_up: handleFlyingUpPhase has run d times
Flying(d) ==
  [enterBossRoom(SceneCrystal) EXCEPT
     !.room.duration = d, !.room.fadeAlpha = d, !.player.y = @ - Px(8) * d,
     !.player.idleBlinkTimer = d]

\* b < 60 frames into black_screen
Black(b) ==
  [Flying(0) EXCEPT
     !.room.phase = "black_screen", !.room.duration = 120,
     !.room.blackScreenDuration = b, !.room.fadeAlpha = 120,
     !.player.y = @ - Px(8) * 120, !.player.idleBlinkTimer = 120 + b]

SceneFlying116 == Flying(116)

SceneBlack56 == Black(56)

\* 8 to 56 frames into flying_down, the boss spawned and acting
SceneDown8 == Idle(SceneBlack56, 12)

SceneDown20 == Idle(SceneDown8, 12)

SceneDown48 == Idle(SceneDown20, 28)

SceneDown56 == Idle(SceneDown48, 8)

\* on the crystal a golem's swing has taken the player's last health, and
\* the death sequence has reached its last frame
SceneCrystalDying ==
  Idle([SceneCrystal EXCEPT
          !.player = damagePlayer([@ EXCEPT !.health = 20], 20),
          !.golems = << [Swinging(Golem(1, FALSE, 6, Px(2592) + 118, 135, -1), 3)
                           EXCEPT !.hasDealtDamage = TRUE, !.gSwingHits = 1] >>,
          !.ghost.nextId = 2,
          !.ghost.meleeHits = 1], 15)

RoomScenes ==
  {SceneCrystal, SceneCrystalDying, SceneFlying116, SceneBlack56, SceneDown8,
   SceneDown20, SceneDown48, SceneDown56}

RoomInit == \E w \in RoomScenes : Is(w)

RoomTicks == 8

RoomEvents == 2

RoomCodes == {"KeyE", "ArrowLeft", "Space"}

RoomNext ==
  \/ Tick(RoomTicks, RoomEvents)
  \/ \E code \in RoomCodes : ghost.events < RoomEvents /\ KeyDown(code)

SpecRoom == RoomInit /\ [][RoomNext]_vars

\* the y the transition scripts for the next frame, in half pixels
ScriptedY ==
  IF room.phase = "flying_up" THEN player.y - Px(8)
  ELSE IF room.phase = "flying_down"
       THEN -Px(200) + (Px(700) * Min(room.duration, 60)) \div 60
       ELSE player.y

\* C21: while the transition goes on within one phase, no key event and no
\* tick changes the player's x, a key event leaves y alone and a tick moves
\* y by the scripted motion only.
C21_ScriptedMotionOnly ==
  [][(room.enteringBossRoom /\ room'.enteringBossRoom
        /\ room'.phase = room.phase) =>
       /\ player'.x = player.x
       /\ player'.y = IF ghost'.ticks = ghost.ticks THEN player.y
                      ELSE ScriptedY]_vars

\* the update ticks the transition still takes: what is left of the 120 of
\* flying_up, the 60 of black_screen and the 61 of flying_down
TransitionLeft(r) ==
  IF ~r.enteringBossRoom THEN 0
  ELSE IF r.phase = "flying_up" THEN (120 - r.duration) + 60 + 61
  ELSE IF r.phase = "black_screen" THEN (60 - r.blackScreenDuration) + 61
  ELSE 61 - Min(r.duration, 60)

TransitionComplete ==
  /\ ~room.enteringBossRoom /\ room.inBossRoom /\ bsys.boss.exists
  /\ room.fadeAlpha = 0
  /\ player.y = Px(500) /\ player.isGrounded /\ player.velocityY = 0

\* C22: every frame in which update is called during the transition brings
\* the transition one tick nearer to its end, and the frame that ends it
\* leaves the boss room entered, the boss present, fadeAlpha 0 and the
\* player grounded at y = 500 with no vertical velocity; hence the
\* transition completes if such frames keep occurring.
C22_TransitionCompletes ==
  [][(room.enteringBossRoom /\ ghost'.ticks > ghost.ticks) =>
       /\ TransitionLeft(room') = TransitionLeft(room) - 1
       /\ TransitionLeft(room') = 0 => TransitionComplete']_vars

----------------------------------------------------------------------------
(* The boss's activity                                                      *)

BossActivityFlags(b) ==
  BossAttackFlags(b) \cup {f \in {"hurt", "dead"} :
                             \/ f = "hurt" /\ b.isHurt
                             \/ f = "dead" /\ b.isDead}

\* C23: at most one of the boss's flags isAttacking, isMagicAttacking,
\* isLightningAttacking, isHurt and isDead is true.
C23_OneBossActivity == Cardinality(BossActivityFlags(bsys.boss)) <= 1

\* C24: the boss starts a melee or a magic attack only once its idleTime
\* has counted up to maxIdleTime = 60.
C24_IdleGraceBeforeAttack ==
  [][(\/ ~bsys.boss.isAttacking /\ bsys'.boss.isAttacking
      \/ ~bsys.boss.isMagicAttacking /\ bsys'.boss.isMagicAttacking) =>
       bsys'.boss.idleTime >= 60]_vars

\* C25: a fire attack shoots exactly three fireballs in the 15th call of
\* BossSystem.update after it started and exactly one lightning bolt in the
\* 40th call after the fireballs, the boss then being in neither attack
\* state; a fire attack starts no sooner than 240 calls after the previous one
C25_FireAttackSchedule ==
  \A i \in DOMAIN ghost.shots :
    LET e == ghost.shots[i]
    IN /\ e.kind = "fireballs" => e.count = 3 /\ e.age = 15
       /\ e.kind = "lightning" =>
            /\ e.count = 1 /\ e.age = 40
            /\ ~bsys.boss.isMagicAttacking /\ ~bsys.boss.isLightningAttacking
       /\ e.kind = "start" => e.age = -1 \/ e.age >= 240

----------------------------------------------------------------------------
(* The boss's melee attack                                                  *)

\* the player stands x px from the left edge of the boss room, the boss
\* (at 100 px) has just been spawned
SceneMelee(x, health) ==
  [spawnDirectlyInBossRoom(Playing(2, health, 0, <<>>)) EXCEPT
     !.player.x = Px(x), !.player.facingRight = FALSE]

SceneMeleeRaised == Idle(SceneMelee(215, 100), 12)

SceneMeleeFatal == Idle(SceneMelee(180, 20), 12)

MeleeScenes == {SceneMelee(215, 100), SceneMeleeRaised, SceneMeleeFatal}

MeleeInit == \E w \in MeleeScenes : Is(w)

MeleeTicks == 10

MeleeEvents == 2

MeleeCodes == {"ArrowRight", "ArrowLeft"}

MeleeNext ==
  \/ Tick(MeleeTicks, MeleeEvents)
  \/ \E code \in MeleeCodes : ghost.events < MeleeEvents /\ KeyDown(code)
  \/ \E code \in MeleeCodes : ghost.events < MeleeEvents /\ KeyUp(code)

SpecMelee == MeleeInit /\ [][MeleeNext]_vars

SwingInRange(e) == Abs(e.x - BossX) <= Px(120)

\* C26: a melee attack of the boss takes 20 health from the player at most
\* once, in its swing tick, and it does so exactly if the player is within
\* meleeRange (120 px) of the boss in that tick
C26_MeleeHitAtSwing ==
  /\ bsys.boss.gMeleeHits <= 1
  /\ ghost.bossHits =
       Cardinality({i \in DOMAIN ghost.swings : SwingInRange(ghost.swings[i])})
  /\ \A i \in DOMAIN ghost.swings :
       LET e == ghost.swings[i]
       IN e.after = IF SwingInRange(e) THEN e.before - 20 ELSE e.before

C26_Witness ==
  \E i \in DOMAIN ghost.swings :
    /\ SwingInRange(ghost.swings[i])
    /\ ghost.swings[i].after = ghost.swings[i].before - 20
    /\ player.health = ghost.swings[i].after

----------------------------------------------------------------------------
(* The boss's death and the end screen                                      *)

\* the boss has just lost its last health
SceneSlain == [SceneMelee(300, 100) EXCEPT !.bsys.boss.health = -5]

\* the dead boss has shown its last frame for t calls of BossSystem.update
SceneBossDead(t) ==
  [Idle(SceneSlain, 6) EXCEPT !.bsys.boss.deathAnimationTimer = t,
                              !.bsys.boss.gLastFrameAge = t - 1,
                              !.player.idleBlinkTimer = @ + t - 1]

VictoryScenes == {SceneSlain, SceneBossDead(1), SceneBossDead(114)}

VictoryInit == \E w \in VictoryScenes : Is(w)

VictoryTicks == 8

VictoryEvents == 2

VictoryCodes == {"KeyA", "ArrowLeft", "ArrowRight"}

VictoryNext ==
  \/ Tick(VictoryTicks, VictoryEvents)
  \/ \E code \in VictoryCodes : ghost.events < VictoryEvents /\ KeyDown(code)

SpecVictory == VictoryInit /\ [][VictoryNext]_vars

\* C27: the end screen is shown only in the boss room with the boss dead and
\* deathAnimationFinished set, and deathAnimationFinished is set only when 120
\* calls of update have passed since the death animation reached its last
\* frame (dyingFrame 5)
C27_VictoryAfterDelay ==
  [][/\ (~screens.end /\ screens'.end) =>
          /\ room'.inBossRoom
          /\ bsys'.boss.isDead
          /\ bsys'.boss.deathAnimationFinished
     /\ (~bsys.boss.deathAnimationFinished
           /\ bsys'.boss.deathAnimationFinished) =>
          /\ bsys'.boss.dyingFrame = 5
          /\ bsys'.boss.gLastFrameAge >= 120]_vars

----------------------------------------------------------------------------
(* From dying to game over                                                  *)

\* the frames of the death sequence and the ticks of the dying delay left
DyingLeft(p) == (14 - p.dyingFrame) + (100 - p.dyingAge)

\* the game without the history kept for the properties
Simulation(w) ==
  [ClearLogs(w) EXCEPT
     !.ghost = GhostInit,
     !.player.gDeathEntries = 0,
     !.player.gCastTicks = 0,
     !.golems = [i \in DOMAIN @ |->
                   [@[i] EXCEPT !.gId = 0, !.gSwingHits = 0, !.gUltLog = <<>>,
                                !.gRewards = 0, !.gDyingTicks = 0,
                                !.gDeathAwards = 0,
                                !.gAttackAge = -1]],
     !.spells = [i \in DOMAIN @ |-> [@[i] EXCEPT !.gLifetimeBefore = 0, !.gHits = 0,
                                !.gSplashes = 0]]]

\* C28: gameOver is set only for a dying player whose death sequence is at
\* its last frame (14) and whose dying delay of 1500 ms is over; every call
\* of update for a dying player brings the game over nearer (a frame of the
\* sequence or a tick of the delay, of which finitely many are left) or sets
\* gameOver; once gameOver is set a call of update changes nothing of the
\* simulation
C28_GameOverAfterDying ==
  [][/\ (~game.gameOver /\ game'.gameOver) =>
          /\ player'.isDying
          /\ player'.dyingFrame = 14
          /\ ghost'.dyingDelay = "over"
     /\ (player.isDying /\ ~game.gameOver /\ ghost'.ticks > ghost.ticks) =>
          /\ player'.isDying
          /\ game'.gameOver \/ DyingLeft(player') < DyingLeft(player)
          /\ DyingLeft(player') = 0 => game'.gameOver
     /\ (game.gameOver /\ ghost'.ticks > ghost.ticks) =>
          Simulation(World)' = Simulation(World)]_vars

\* C28 as it holds: the same, the progress of a dying player being promised
\* only for calls of update made while the start screen is not shown (the
\* pause menu leads a dying player back to it)
C28_GameOverAfterDyingInGame ==
  [][/\ (~game.gameOver /\ game'.gameOver) =>
          /\ player'.isDying
          /\ player'.dyingFrame = 14
          /\ ghost'.dyingDelay = "over"
     /\ (player.isDying /\ ~game.gameOver /\ ~screens.start
           /\ ghost'.ticks > ghost.ticks) =>
          /\ player'.isDying
          /\ game'.gameOver \/ DyingLeft(player') < DyingLeft(player)
          /\ DyingLeft(player') = 0 => game'.gameOver
     /\ (game.gameOver /\ ghost'.ticks > ghost.ticks) =>
          Simulation(World)' = Simulation(World)]_vars

C28_Witness ==
  /\ game.gameOver
  /\ player.isDying
  /\ player.dyingFrame = 14
  /\ ghost.dyingDelay = "unread"
  /\ ghost.ticks > 0

----------------------------------------------------------------------------
(* Casting a spell                                                          *)

\* C29: an input event, key or mouse, makes isCasting true only for a player
\* that is not casting, not casting the ultimate, not hurt and not dying, and
\* with fewer than 15 spells in flight
C29_CastEntryGuards ==
  [][(~player.isCasting /\ player'.isCasting /\ ghost'.ticks = ghost.ticks) =>
       /\ ~player.isCastingUltimate
       /\ ~player.isHurt
       /\ ~player.isDying
       /\ Len(spells) < 15]_vars

\* two golems swing at a player who is about to cast, or began to n calls
\* of update ago
SceneCast(n) ==
  IF n = 0 THEN SceneTwo(100)
  ELSE [SceneTwo(100) EXCEPT !.player.isCasting = TRUE,
                             !.player.currentAnimation = "casting",
                             !.player.castingFrame = n,
                             !.player.gCastTicks = n]

\* SceneCast(0) 29 and 58 calls of update later: the swings are over and
\* the golems stand by the player until their cooldowns (2 and 4) end
SceneRested29 == Idle(SceneCast(0), 29)

SceneRested == Idle(SceneRested29, 29)

CastScenes == {SceneCast(0), SceneCast(9), SceneRested}

CastInit == \E w \in CastScenes : Is(w)

CastTicks == 19

CastEvents == 1

CastCodes == {"KeyA", "ArrowLeft", "Space"}

CastNext ==
  \/ Tick(CastTicks, CastEvents)
  \/ \E code \in CastCodes : ghost.events < CastEvents /\ KeyDown(code)
  \/ ghost.events < CastEvents /\ MouseDown

SpecCast == CastInit /\ [][CastNext]_vars

\* C30: a call of update for a casting player who is not dying after it
\* fires no spell before the 18th call since the cast began and exactly one
\* spell in the 18th (lifetime 60, damage the player's sSkillDamage), after
\* which the player is not casting; a casting player's velocityX is 0
C30_CastFiresOnce ==
  /\ [](player.isCasting => player.velocityX = 0)
  /\ [](\A i \in DOMAIN ghost.casts :
          LET e == ghost.casts[i]
          IN ~e.isUltimate =>
               /\ e.age = 18 /\ e.lifetime = 60
               /\ e.damage = e.sSkillDamage)
  /\ [][(player.isCasting /\ CompleteTick /\ ~player'.isDying) =>
          IF player.gCastTicks = 17
          THEN /\ Len(ghost'.casts) = 1
               /\ ~player'.isCasting
               /\ player'.currentAnimation = "idle"
          ELSE /\ Len(ghost'.casts) = 0
               /\ player'.isCasting
               /\ player'.gCastTicks = player.gCastTicks + 1]_vars

C30_Witness ==
  /\ Len(ghost.casts) = 1
  /\ ghost.casts[1].age = 18
  /\ ~player.isCasting
  /\ ghost.ticks = 18

----------------------------------------------------------------------------
(* The hurt player                                                          *)

\* what an input could move or start
PlayerMotion(p) ==
  [x |-> p.x, y |-> p.y, velocityX |-> p.velocityX, velocityY |-> p.velocityY,
   isJumping |-> p.isJumping, isCasting |-> p.isCasting,
   isCastingUltimate |-> p.isCastingUltimate]

\* C31: while the player is isHurt no key or mouse event changes the
\* player's position or velocity or starts a jump, a cast or an ultimate
\* cast; the call of update in which isHurt is cleared leaves the animation
\* idle
C31_HurtBlocksInput ==
  [][/\ (player.isHurt /\ player'.isHurt /\ ghost'.events > ghost.events
           /\ ghost'.ticks = ghost.ticks) =>
          PlayerMotion(player') = PlayerMotion(player)
     /\ (player.isHurt /\ ~player'.isHurt /\ ghost'.ticks > ghost.ticks) =>
          player'.currentAnimation = "idle"]_vars

----------------------------------------------------------------------------
(* The attacks of a golem                                                   *)

\* the golem of golems' that was g before the call of update, if it is
\* still in the list
After(g) == {golems'[j] : j \in {k \in DOMAIN golems' : golems'[k].gId = g.gId}}

----------------------------------------------------------------------------
(* The life of a spell                                                      *)

\* SceneFirst six calls of update after the R key: the ultimate cast is over,
\* a lightning hovers over every golem (the three bonus golems 300 px to the
\* right included)
SceneStruck == Idle(handleKeyDown(SceneFirst, "KeyR"), 6)

\* 18 calls later the lightnings are about to strike
SceneHovering == Idle(SceneStruck, 18)

\* the duel with the player 60 px nearer to the boss, which the spell
\* reaches as it is released
SceneDuelNear == [SceneDuel(1000) EXCEPT !.player.x = Px(240)]

\* the player, at 98 mana, releases a spell (damage 30, splash 15) at a
\* swinging golem; next to it a golem that a spell has killed, and an elite
\* golem left with 15 health; a fourth golem walks up from 200 px
SceneFour ==
  Casting(Playing(0, 100, 98,
                  << Swinging(Golem(1, FALSE, 4, 118, 90, -1), 8),
                     Dying(Golem(2, FALSE, 4, 117, 0, -1), 2),
                     Walking(Golem(3, TRUE, 4, 126, 15, -1)),
                     Walking(Golem(4, FALSE, 4, Px(200), 90, -1)) >>))

SpellScenes ==
  {SceneStruck, SceneHovering, Casting(SceneTwo(100)), SceneDuelNear,
   SceneFour}

SpellInit == \E w \in SpellScenes : Is(w)

SpellTicks == 8

SpellEvents == 1

SpellCodes == {"KeyA", "ArrowLeft"}

SpellNext ==
  \/ Tick(SpellTicks, SpellEvents)
  \/ \E code \in SpellCodes : ghost.events < SpellEvents /\ KeyDown(code)

SpecSpell == SpellInit /\ [][SpellNext]_vars

\* C33: the lifetime of a spell in the list never increases from one call of
\* update to the next, and no spell stays in the list with a lifetime of 0
\* or less
C33_LifetimeOnlyDecreases ==
  \A i \in DOMAIN spells :
    /\ spells[i].lifetime <= spells[i].gLifetimeBefore
    /\ spells[i].lifetime > 0

\* the second half alone: every spell left in the list has lifetime > 0
ExpiredSpellsRemoved == \A i \in DOMAIN spells : spells[i].lifetime > 0

\* C34: a spell that is not the ultimate's damages one target at most in its
\* whole life and splashes once at most; once it has hit it is exploding
\* with velocity 0 and at most 30 calls of update to live, and it has hit
\* exactly once
C34_OneDirectHit ==
  \A i \in DOMAIN spells :
    ~spells[i].isUltimate =>
      /\ spells[i].gHits <= 1 /\ spells[i].gSplashes <= 1
      /\ spells[i].hasHit <=> spells[i].gHits = 1
      /\ spells[i].hasHit =>
           /\ spells[i].isExploding /\ spells[i].velocityX = 0
           /\ spells[i].lifetime <= 30

\* the golems of the list that the spell overlaps
Overlapped(s) ==
  {j \in DOMAIN golems :
     checkHitboxCollision(getSpellHitbox(s), getGolemHitbox(golems[j]))}

\* an exploding spell, some calls of update after its hit, still overlaps
\* two golems, one of them alive
C34_Witness ==
  \E i \in DOMAIN spells :
    /\ ~spells[i].isUltimate /\ spells[i].hasHit /\ spells[i].lifetime < 28
    /\ Cardinality(Overlapped(spells[i])) >= 2
    /\ \E j \in Overlapped(spells[i]) : golems[j].health > 0

----------------------------------------------------------------------------
(* The splash of a spell                                                    *)

\* the hits of the last call of update by spells that are not the ultimate's
DirectHits ==
  {k \in DOMAIN ghost.hits :
     ghost.hits[k].kind = "direct" /\ ~ghost.hits[k].isUltimate}

SplashesOn(id) ==
  {k \in DOMAIN ghost.hits :
     ghost.hits[k].kind = "splash" /\ ghost.hits[k].gId = id}

\* the spells that hit in the last call of update
JustExploded ==
  {i \in DOMAIN spells :
     ~spells[i].isUltimate /\ spells[i].gHits = 1 /\ spells[i].lifetime = 30}

\* the distance of the two positions is at most 80 px
Within80(s, g) ==
  (s.x - g.x) * (s.x - g.x) + (s.y - GolemY) * (s.y - GolemY)
    <= Px(80) * Px(80)

\* C35: a direct hit of a spell of damage d takes exactly d from the golem
\* hit, and its splash exactly floor(d/2) from every other golem within 80
\* of the spell and nothing from the golems farther away and from the golem
\* hit; a splash that takes a golem from health > 0 to health <= 0 gives 3
\* mana, capped at 100, and no other splash gives mana
C35_SplashDamage ==
  /\ \A k \in DOMAIN ghost.hits :
       LET e == ghost.hits[k]
       IN /\ e.health = e.oldHealth - e.damage
          /\ e.kind = "splash" =>
               e.mana = IF e.oldHealth > 0 /\ e.health <= 0
                        THEN Min(100, e.oldMana + 3) ELSE e.oldMana
  /\ (Cardinality(DirectHits) = 1 /\ Cardinality(JustExploded) = 1) =>
       LET e == ghost.hits[CHOOSE k \in DirectHits : TRUE]
           s == spells[CHOOSE i \in JustExploded : TRUE]
       IN /\ e.damage = s.damage
          /\ \A j \in DOMAIN golems :
               LET g == golems[j]
                   on == SplashesOn(g.gId)
               IN IF g.gId # e.gId /\ Within80(s, g)
                  THEN /\ Cardinality(on) = 1
                       /\ \A k \in on :
                            /\ ghost.hits[k].damage = s.damage \div 2
                            /\ ghost.hits[k].health = g.health
                  ELSE on = {}

\* a spell has hit one of four golems: its splash has killed a second one
\* for the 3 mana that the cap leaves 2 of, has reached a golem that was
\* dead already, and has not reached the fourth
C35_Witness ==
  /\ Cardinality(DirectHits) = 1 /\ Cardinality(JustExploded) = 1
  /\ \E k \in DOMAIN ghost.hits :
       /\ ghost.hits[k].kind = "splash"
       /\ ghost.hits[k].oldHealth > 0 /\ ghost.hits[k].health <= 0
       /\ ghost.hits[k].oldMana = 98 /\ ghost.hits[k].mana = 100
  /\ \E k \in DOMAIN ghost.hits :
       /\ ghost.hits[k].kind = "splash" /\ ghost.hits[k].oldHealth <= 0
       /\ ghost.hits[k].mana = ghost.hits[k].oldMana
  /\ \E j \in DOMAIN golems :
       /\ SplashesOn(golems[j].gId) = {}
       /\ \A k \in DirectHits : ghost.hits[k].gId # golems[j].gId

----------------------------------------------------------------------------
(* The boss room and the menus                                              *)

\* the boss room left for the main menu by the button of the pause overlay
SceneMenu == resetToMainMenu(togglePause(SceneBoss))

MenuScenes == {SceneSecond, SceneBoss, SceneMenu, SceneLateDying}

MenuInit == \E w \in MenuScenes : Is(w)

MenuTicks == 8

MenuEvents == 3

MenuCodes == {"F2", "Escape"}

MenuNext ==
  \/ Tick(MenuTicks, MenuEvents)
  \/ \E code \in MenuCodes : ghost.events < MenuEvents /\ KeyDown(code)
  \/ ghost.events < MenuEvents /\ GameOverRestart
  \/ ghost.events < MenuEvents /\ GameOverBackToMenu
  \/ ghost.events < MenuEvents /\ StartScreenStart
  \/ ghost.events < MenuEvents /\ PauseButtonClick

SpecMenu == MenuInit /\ [][MenuNext]_vars

\* C36: whenever inBossRoom is set the boss record exists, and a call of
\* update without a boss record before and after it leaves the boss system
\* as it is
C36_BossPresentInRoom ==
  /\ [](room.inBossRoom => bsys.boss.exists)
  /\ [][(ghost'.ticks # ghost.ticks /\ ~bsys.boss.exists
            /\ ~bsys'.boss.exists) => bsys' = bsys]_vars

\* back in the boss room, with a new boss, in the game started from the
\* main menu
C36_Witness ==
  /\ room.inBossRoom /\ bsys.boss.exists /\ bsys.boss.health = 1000
  /\ game.score = 0 /\ ghost.events >= 2 /\ ghost.ticks > 0
  /\ ~screens.start

----------------------------------------------------------------------------
(* The number of spells                                                     *)

\* the thirteen golems of the crowd that are within 550 px of the player,
\* five calls of update after the R key: the ultimate is released in the
\* next one
SceneCrowdCast ==
  Idle(handleKeyDown(Charged(1, SubSeq(CrowdGolems, 1, 13)), "KeyR"), 5)

ThrongInit == Is(SceneCrowdCast)

ThrongTicks == 3

ThrongEvents == 1

ThrongCodes == {"KeyA", "ArrowLeft"}

ThrongNext ==
  \/ Tick(ThrongTicks, ThrongEvents)
  \/ \E code \in ThrongCodes : ghost.events < ThrongEvents /\ KeyDown(code)

SpecThrong == ThrongInit /\ [][ThrongNext]_vars

\* C37: the list of the player's spells (bolts, exploding bolts and the
\* lightnings of the ultimate together) never holds more than 15 records
C37_AtMostFifteenSpells == Len(spells) <= 15

----------------------------------------------------------------------------
(* The swing of a dead golem                                                *)

\* C38: a golem whose swing damages the player in a call of update is not
\* dying and has health > 0
C38_DeadGolemsDoNotHit ==
  [][CompleteTick =>
       \A i \in DOMAIN golems : \A h \in After(golems[i]) :
         h.gSwingHits > golems[i].gSwingHits =>
           ~h.isDying /\ h.health > 0]_vars

\* the same for the golems in their death animation alone
DyingGolemsDoNotHit ==
  [][CompleteTick =>
       \A i \in DOMAIN golems : \A h \in After(golems[i]) :
         h.gSwingHits > golems[i].gSwingHits => ~golems[i].isDying]_vars

----------------------------------------------------------------------------
(* The health of a golem                                                    *)

\* the parts of C39 that are not about what increaseGolemHP does to the
\* health of a living golem
HealthWithinMax ==
  /\ [](\A i \in DOMAIN golems : golems[i].health <= golems[i].maxHealth)
  /\ [](\A k \in DOMAIN ghost.rescaled :
          LET e == ghost.rescaled[k]
          IN /\ e.maxHealth >= e.oldMax
             /\ e.oldHealth > 0 => e.health > 0
             /\ e.oldHealth <= 0 => e.health = e.oldHealth)
  /\ [][\A i \in DOMAIN golems : \A h \in After(golems[i]) :
          golems[i].health <= 0 => h.health <= 0]_vars

\* C39: the health of a golem is never above its maxHealth; increaseGolemHP
\* lowers neither the health nor the maxHealth of a golem and leaves a
\* golem with health > 0 at health > 0; a golem whose health is 0 or less
\* never has health > 0 again
C39_HealthNeverLowered ==
  /\ HealthWithinMax
  /\ [](\A k \in DOMAIN ghost.rescaled :
          ghost.rescaled[k].health >= ghost.rescaled[k].oldHealth)

----------------------------------------------------------------------------
(* Mana and mana potions                                                    *)

\* The player, at 96 mana, releases a spell at a swinging golem that has 30
\* left; two elite golems killed before are 20 and 22 px to the right, f1
\* and f2 frames into their death animations.
ScenePotions(f1, f2) ==
  Casting(Playing(0, 100, 96,
                  << Dying(Golem(1, TRUE, 4, 40, 0, -1), f1),
                     Dying(Golem(2, TRUE, 4, 44, -15, -1), f2),
                     Swinging(Golem(3, FALSE, 4, 118, 30, -1), 8) >>))

PotionScenes == {ScenePotions(13, 13), ScenePotions(13, 12)}

PotionInit == \E w \in PotionScenes : Is(w)

PotionTicks == 10

PotionEvents == 1

PotionCodes == {"KeyQ", "KeyR"}

PotionNext ==
  \/ Tick(PotionTicks, PotionEvents)
  \/ \E code \in PotionCodes : ghost.events < PotionEvents /\ KeyDown(code)

SpecPotion == PotionInit /\ [][PotionNext]_vars

\* C40: mana is between 0 and 100 and manaPotions is not negative; a step
\* of the game in play that lowers manaPotions starts with manaPotions > 0,
\* lowers it by one and is no call of update; every potion in the list has
\* been collected at most once
C40_ManaAndPotions ==
  /\ [](player.mana >= 0 /\ player.mana <= 100 /\ player.manaPotions >= 0)
  /\ [](\A i \in DOMAIN potions :
          /\ potions[i].gPickups <= 1
          /\ potions[i].collected <=> potions[i].gPickups = 1)
  /\ [][(screens' = screens /\ player'.manaPotions < player.manaPotions) =>
          /\ player.manaPotions > 0
          /\ player'.manaPotions = player.manaPotions - 1
          /\ ghost'.ticks = ghost.ticks]_vars

\* both elite golems have dropped their potions, both potions have been
\* collected (one of them is still in the list) and one has been used
C40_Witness ==
  /\ player.manaPotions = 1 /\ player.mana = 100
  /\ \A i \in DOMAIN golems : ~golems[i].isElite
  /\ potions # <<>> /\ \A i \in DOMAIN potions : potions[i].collected
  /\ ghost.events > 0 /\ ghost.ticks > 0
====
